---------------------------- MODULE Spec2Model ----------------------------
(***************************************************************************)
(* Model of the streaming-link matching and reconciliation engine of       *)
(* src/src/nmjanitsjar_scraper/streaming_search.py.                        *)
(*                                                                         *)
(* Text is a sequence of characters.  A character is a one-element token   *)
(* naming a code point ("a", "A", " ", "(", "e_acute", ...), so that       *)
(* normalisation, substring tests and comparisons work on characters as    *)
(* the Python code does.  None is the text NoneVal, an absent dictionary   *)
(* key is the text Absent; neither is a sequence of characters.            *)
(*                                                                         *)
(* Scores are exact fractions <<n, d>> (d > 0); the code computes them in  *)
(* binary floating point, which agrees with the fractions on every         *)
(* comparison of the values that occur here.                               *)
(***************************************************************************)
EXTENDS Integers, Sequences, FiniteSets, TLC

VARIABLES
    mPerf,      \* SpecMatch: the performance handed to match_spotify/match_apple
    mTracks,    \* SpecMatch: the memoised track list of the performance's division
    mCombined,  \* SpecMatch: combined_score of every track, as the loop computed it
    mResult,    \* SpecMatch: what the call returned
    mPc         \* SpecMatch: "input" before the call, the platform name after it

matchVars == <<mPerf, mTracks, mCombined, mResult, mPc>>

VARIABLES
    bBandType,   \* SpecBuild: the run's band_type
    bPerfs,      \* the year's performances handed to build_year_streaming_entries
    bClients,    \* the providers the finder has a client for
    bMemo,       \* the finder's memoised track lists, per platform and division
    bOverrides,  \* StreamingOverrideResolver._overrides, in dict order
    bApplied,    \* StreamingOverrideResolver._applied_keys
    bMatches,    \* build_year_streaming_entries: matches
    bSerialised, \* build_year_streaming_entries: serialised, before the sort
    bEntries,    \* what build_year_streaming_entries returned
    bPc,         \* "match", "serialise", "leftover", "built", "written", "combined"
    bIdx,        \* position of the running loop in bPerfs / bMatches
    bLog,        \* history: one item per pass of the second loop
    bOrigins,    \* history: for each record of bSerialised, what appended it
    bYearFiles,  \* the per-year files of the run's band_type, by year
    bAggregate,  \* the aggregate file
    bBefore,     \* history: the aggregate file before the latest combine
    bRepeat,     \* history: the latest combine ran straight after another one
    bSteps       \* number of combine and file-changing steps taken

buildVars == <<bBandType, bPerfs, bClients, bMemo, bOverrides, bApplied, bMatches,
               bSerialised, bEntries, bPc, bIdx, bLog, bOrigins, bYearFiles,
               bAggregate, bBefore, bRepeat, bSteps>>

VARIABLES
    fInput,        \* SpecFinder: the performance, the provider's answers, the cache file
    fRun,          \* which of the two runs on fInput is under way
    fPc,           \* "call", "search", "fetch", "done", "raised"
    fRemaining,    \* terms of resolve_album_search_terms the loop has not reached
    fCandidates,   \* candidate_albums
    fFiltered,     \* filtered_albums
    fIdx,          \* position of the track loop in fFiltered
    fSeenTrackIds, \* seen_track_ids
    fTracks,       \* tracks
    fCache,        \* the StreamingCache of the client
    fFetched,      \* history: album ids asked of the provider in this run
    fDiscovered,   \* _discovered_album_names
    fResult,       \* the records built from the run's match
    fFirst,        \* history: fResult of the first run
    fMemo,         \* _spotify_album_cache: the track list of each division collected
    fCall,         \* which match of this finder is under way
    fCalls,        \* history: provider searches and track listings of this finder
    fSeen,         \* history: fCalls and fTracks at the end of the first match
    fFile          \* spotify.album_tracks of the cache file on disk

finderVars == <<fInput, fRun, fPc, fRemaining, fCandidates, fFiltered, fIdx,
                fSeenTrackIds, fTracks, fCache, fFetched, fDiscovered, fResult,
                fFirst, fMemo, fCall, fCalls, fSeen, fFile>>

VARIABLES
    rInput,     \* SpecRun: the arguments and dataset of generate_streaming_links
    rPc,        \* "start", "selected", "written", "returned"
    rTargets,   \* target_years
    rMatched,   \* history: build_year_streaming_entries ran its match loop
    rWritten,   \* history: the years write_year_file was called for
    rCombined,  \* history: combine_year_files rewrote the aggregate
    rSaved,     \* history: cache.save() was called
    rReturn,    \* the value returned (-1: nothing yet)
    rDirty,     \* cache._dirty
    rStored,    \* history: the run stored an album's tracks in the cache
    rCacheFile  \* "untouched", or "written" once save() has written the file

runVars == <<rInput, rPc, rTargets, rMatched, rWritten, rCombined, rSaved, rReturn,
             rDirty, rStored, rCacheFile>>

VARIABLES
    tX,  \* SpecNormalize, SpecSimilarity: the first argument
    tY,  \* SpecSimilarity: the second argument
    tRemove,  \* SpecNormalize: remove_parentheticals
    tOut  \* the values returned so far, in call order

textVars == <<tX, tY, tRemove, tOut>>

VARIABLES
    sDivision,  \* SpecScore: the target division
    sAlbums,  \* the two albums scored
    sScores  \* their scores, once score_album_relevance has run

scoreVars == <<sDivision, sAlbums, sScores>>

VARIABLES
    lDoc,  \* SpecLoad: the override document, [kind, entries]
    lBandType,  \* the run's band_type
    lPc,  \* "load", "lookup", "done", "raised"
    lIdx,  \* position of from_file's loop in the document's entries
    lOverrides,  \* overrides, the dict from_file builds
    lApplied,  \* _applied_keys
    lFound,  \* what lookup returned, per performance looked up
    lRemaining  \* what remaining_entries returned

loadVars == <<lDoc, lBandType, lPc, lIdx, lOverrides, lApplied, lFound, lRemaining>>

VARIABLES
    xFile,  \* SpecShare: the cache file, [kind, albums]
    xPc,  \* per run: "start", "loaded", "writing", "done"
    xData,  \* per run: _data, the album entries in memory (album id to the run that fetched)
    xDirty,  \* per run: _dirty
    xStored,  \* history, per run: the album ids the run stored
    xWriters  \* history: the runs in the order their writes completed

shareVars == <<xFile, xPc, xData, xDirty, xStored, xWriters>>

vars == <<matchVars, buildVars, finderVars, runVars, textVars, scoreVars, loadVars, shareVars>>

\* What the actions of one specification leave alone in the others.
besideMatch == <<buildVars, finderVars, runVars, textVars, scoreVars, loadVars, shareVars>>
besideBuild == <<matchVars, finderVars, runVars, textVars, scoreVars, loadVars, shareVars>>
besideFinder == <<matchVars, buildVars, runVars, textVars, scoreVars, loadVars, shareVars>>
besideRun == <<matchVars, buildVars, finderVars, textVars, scoreVars, loadVars, shareVars>>
besideText == <<matchVars, buildVars, finderVars, runVars, scoreVars, loadVars, shareVars>>
besideScore == <<matchVars, buildVars, finderVars, runVars, textVars, loadVars, shareVars>>
besideLoad == <<matchVars, buildVars, finderVars, runVars, textVars, scoreVars, shareVars>>
besideShare == <<matchVars, buildVars, finderVars, runVars, textVars, scoreVars, loadVars>>

---------------------------------------------------------------------------
(* Generic helpers.                                                        *)

NoneVal == <<"None">>
Absent == <<"Absent">>

Min(S) == CHOOSE x \in S : \A y \in S : x <= y
Max(S) == CHOOSE x \in S : \A y \in S : x >= y

RECURSIVE Flatten(_)
Flatten(ss) == IF ss = <<>> THEN <<>> ELSE Head(ss) \o Flatten(Tail(ss))

RECURSIVE JoinWith(_, _)
JoinWith(ss, sep) ==
    IF ss = <<>> THEN <<>>
    ELSE IF Len(ss) = 1 THEN ss[1]
    ELSE ss[1] \o sep \o JoinWith(Tail(ss), sep)

\* Python's `needle in haystack` on strings.
Contains(haystack, needle) ==
    \E i \in 0..(Len(haystack) - Len(needle)) :
        \A k \in 1..Len(needle) : haystack[i + k] = needle[k]

\* Sequences of length at most n over S.
SeqUpTo(S, n) == UNION {[1..k -> S] : k \in 0..n}

Frac(n, d) == <<n, d>>
FracLt(x, y) == x[1] * y[2] < y[1] * x[2]
FracLe(x, y) == x[1] * y[2] <= y[1] * x[2]
FracEq(x, y) == x[1] * y[2] = y[1] * x[2]
FracMax(x, y) == IF FracLt(x, y) THEN y ELSE x

---------------------------------------------------------------------------
(* Characters (unicodedata and str methods on the model's alphabet).       *)

UpperChars == <<"A", "B", "C", "D", "E", "F", "G", "H", "I", "J", "K", "L", "M",
                "N", "O", "P", "Q", "R", "S", "T", "U", "V", "W", "X", "Y", "Z">>
LowerChars == <<"a", "b", "c", "d", "e", "f", "g", "h", "i", "j", "k", "l", "m",
                "n", "o", "p", "q", "r", "s", "t", "u", "v", "w", "x", "y", "z">>
DigitChars == <<"0", "1", "2", "3", "4", "5", "6", "7", "8", "9">>

IndexIn(seq, x) == CHOOSE i \in 1..Len(seq) : seq[i] = x
IsIn(seq, x) == \E i \in 1..Len(seq) : seq[i] = x

\* str.lower(), per character.
lower(ch) == IF IsIn(UpperChars, ch) THEN LowerChars[IndexIn(UpperChars, ch)] ELSE ch

\* str.isalnum(), per character.
isalnum(ch) ==
    IsIn(UpperChars, ch) \/ IsIn(LowerChars, ch) \/ IsIn(DigitChars, ch) \/ ch = "e_acute"

\* ord(ch): the code point, which orders Python's strings.
ord(ch) ==
    CASE IsIn(DigitChars, ch) -> 47 + IndexIn(DigitChars, ch)
      [] IsIn(UpperChars, ch) -> 64 + IndexIn(UpperChars, ch)
      [] IsIn(LowerChars, ch) -> 96 + IndexIn(LowerChars, ch)
      [] ch = " " -> 32
      [] ch = "'" -> 39
      [] ch = "(" -> 40
      [] ch = ")" -> 41
      [] ch = "-" -> 45
      [] ch = "." -> 46
      [] ch = "|" -> 124
      [] ch = "e_acute" -> 233
      [] ch = "comb_acute" -> 769
      [] ch = "endash" -> 8211
      [] ch = "emdash" -> 8212
      [] ch = "lsquo" -> 8216
      [] ch = "rsquo" -> 8217

\* unicodedata.normalize("NFKD", ch): a precomposed letter decomposes into its
\* base letter and a combining mark.
NFKD(ch) == IF ch = "e_acute" THEN <<"e", "comb_acute">> ELSE <<ch>>

\* unicodedata.combining(ch) != 0
combining(ch) == ch = "comb_acute"

\* The four str.replace calls of normalize_title.
ReplaceTypographic(ch) ==
    CASE ch \in {"rsquo", "lsquo"} -> "'"
      [] ch \in {"endash", "emdash"} -> "-"
      [] OTHER -> ch

---------------------------------------------------------------------------
(* Text helpers.                                                           *)

RECURSIVE StripFrom(_, _)
StripFrom(value, depth) ==
    IF value = <<>> THEN <<>>
    ELSE LET char == Head(value) IN
         IF char = "(" THEN StripFrom(Tail(value), depth + 1)
         ELSE IF char = ")"
              THEN StripFrom(Tail(value), IF depth > 0 THEN depth - 1 ELSE depth)
         ELSE IF depth > 0 THEN StripFrom(Tail(value), depth)
         ELSE <<char>> \o StripFrom(Tail(value), depth)

strip_parenthetical(value) == StripFrom(value, 0)

\* The tokenising loop of normalize_title: maximal runs of alphanumerics.
RECURSIVE AlnumRuns(_, _)
AlnumRuns(cleaned, current) ==
    IF cleaned = <<>>
    THEN IF current # <<>> THEN <<current>> ELSE <<>>
    ELSE LET ch == Head(cleaned) IN
         IF isalnum(ch) THEN AlnumRuns(Tail(cleaned), Append(current, ch))
         ELSE (IF current # <<>> THEN <<current>> ELSE <<>>)
              \o AlnumRuns(Tail(cleaned), <<>>)

\* The steps of normalize_title, each on the result of the one before.
Replaced(value) == [i \in 1..Len(value) |-> ReplaceTypographic(value[i])]

Decomposed(cleaned) == Flatten([i \in 1..Len(cleaned) |-> NFKD(cleaned[i])])

MarksDropped(cleaned) == SelectSeq(cleaned, LAMBDA ch : ~combining(ch))

\* Mutant: str.swapcase() where the code calls str.lower().
Lowered_swapcase(cleaned) ==
    [i \in 1..Len(cleaned) |->
        IF IsIn(UpperChars, cleaned[i]) THEN LowerChars[IndexIn(UpperChars, cleaned[i])]
        ELSE IF IsIn(LowerChars, cleaned[i])
             THEN UpperChars[IndexIn(LowerChars, cleaned[i])]
             ELSE cleaned[i]]

Lowered(cleaned) == [i \in 1..Len(cleaned) |-> lower(cleaned[i])]

Tokenised(cleaned) == JoinWith(AlnumRuns(cleaned, <<>>), <<"-">>)

normalize_title(value, remove_parentheticals) ==
    IF value = <<>> \/ value = NoneVal THEN <<>>
    ELSE IF remove_parentheticals
    THEN Tokenised(Lowered(MarksDropped(Decomposed(
             strip_parenthetical(Replaced(value))))))
    ELSE Tokenised(Lowered(MarksDropped(Decomposed(Replaced(value)))))

---------------------------------------------------------------------------
(* difflib.SequenceMatcher(None, a, b).ratio() for sequences shorter than  *)
(* 200 elements (no junk, no "popular" elements).  Ranges are half open,   *)
(* [alo, ahi) and [blo, bhi), with positions counted from 1.               *)

RECURSIVE CommonRun(_, _, _, _, _, _)
CommonRun(a, b, i, j, ahi, bhi) ==
    IF i < ahi /\ j < bhi /\ a[i] = b[j]
    THEN 1 + CommonRun(a, b, i + 1, j + 1, ahi, bhi)
    ELSE 0

\* The length of the common run starting at each pair of positions.
Runs(a, b, alo, ahi, blo, bhi) ==
    [p \in (alo..(ahi - 1)) \X (blo..(bhi - 1)) |->
        CommonRun(a, b, p[1], p[2], ahi, bhi)]

Longest(runs) == IF DOMAIN runs = {} THEN 0 ELSE Max({runs[p] : p \in DOMAIN runs})

\* Of the pairs of S the one earliest in a, and of those the one earliest in b.
Earliest(S) ==
    CHOOSE p \in S : \A q \in S : p[1] < q[1] \/ (p[1] = q[1] /\ p[2] <= q[2])

BlockOf(runs, best, alo, blo) ==
    IF best = 0 THEN <<alo, blo, 0>>
    ELSE Earliest({q \in DOMAIN runs : runs[q] = best}) \o <<best>>

LongestBlock(runs, alo, blo) == BlockOf(runs, Longest(runs), alo, blo)

\* find_longest_match: the longest block; of those the one starting earliest
\* in a, and of those the one starting earliest in b.  <<i, j, size>>.
find_longest_match(a, b, alo, ahi, blo, bhi) ==
    LongestBlock(Runs(a, b, alo, ahi, blo, bhi), alo, blo)

\* The sum of the sizes of get_matching_blocks(): the block m and the blocks
\* to its left and to its right.
RECURSIVE MatchingSize(_, _, _, _, _, _)
RECURSIVE SizeAround(_, _, _, _, _, _, _)
SizeAround(a, b, alo, ahi, blo, bhi, m) ==
    IF m[3] = 0 THEN 0
    ELSE m[3]
         + MatchingSize(a, b, alo, m[1], blo, m[2])
         + MatchingSize(a, b, m[1] + m[3], ahi, m[2] + m[3], bhi)

MatchingSize(a, b, alo, ahi, blo, bhi) ==
    IF alo >= ahi \/ blo >= bhi THEN 0
    ELSE SizeAround(a, b, alo, ahi, blo, bhi,
                    find_longest_match(a, b, alo, ahi, blo, bhi))

ratio(a, b) ==
    IF Len(a) + Len(b) = 0 THEN Frac(1, 1)
    ELSE Frac(2 * MatchingSize(a, b, 1, Len(a) + 1, 1, Len(b) + 1), Len(a) + Len(b))

\* str.split(sep) for a one-character separator.
RECURSIVE SplitAcc(_, _, _)
SplitAcc(s, sep, current) ==
    IF s = <<>> THEN <<current>>
    ELSE IF Head(s) = sep THEN <<current>> \o SplitAcc(Tail(s), sep, <<>>)
    ELSE SplitAcc(Tail(s), sep, Append(current, Head(s)))

split(s, sep) == SplitAcc(s, sep, <<>>)

Elements(seq) == {seq[i] : i \in 1..Len(seq)}

TokenSet(slug) == Elements(split(slug, "-"))

token_overlap(tokens_piece, tokens_track) ==
    Frac(Cardinality(tokens_piece \cap tokens_track),
         Max({Cardinality(tokens_piece), Cardinality(tokens_track)}))

\* ratio = max(ratio, 0.9) when one slug contains the other
Boosted(piece_slug, track_slug, plain) ==
    IF Contains(track_slug, piece_slug) \/ Contains(piece_slug, track_slug)
    THEN FracMax(plain, Frac(9, 10)) ELSE plain

similarity_score(piece_slug, track_slug) ==
    IF piece_slug = <<>> \/ track_slug = <<>> THEN Frac(0, 1)
    ELSE IF piece_slug = track_slug THEN Frac(1, 1)
    ELSE FracMax(Boosted(piece_slug, track_slug, ratio(piece_slug, track_slug)),
                 token_overlap(TokenSet(piece_slug), TokenSet(track_slug)))

---------------------------------------------------------------------------
(* The texts the specifications draw their inputs from, and the two text   *)
(* functions tabulated on them (`@@ <<>>` makes TLC build a table once),   *)
(* where the code calls the function again for every track.               *)

Txt_abc == <<"a", "b", "c">>
Txt_abd == <<"a", "b", "d">>
Txt_ab == <<"a", "b">>
Txt_ac == <<"a", "c">>
Txt_d == <<"d">>
Txt_a_b == <<"A", " ", "b">>
Txt_a_b_c == <<"a", " ", "b", " ", "(", "c", ")">>
Txt_paren_a == <<"(", "a", ")">>
Txt_Elite == <<"E", "l", "i", "t", "e">>

MatchPieces == {Txt_abc, Txt_ab, Txt_a_b}
MatchBands == {Txt_ab, Txt_paren_a}
MatchTitles == {Txt_abc, Txt_abd, Txt_ac, Txt_a_b_c, Txt_d}
MatchArtists == {<<>>, Txt_ab, Txt_ac, Txt_abd}
MatchYear == 2023

Txt_Ab == <<"A", "b">>
Txt_Div1 == <<"1", ".", " ", "d", "i", "v", "i", "s", "j", "o", "n">>
Txt_wind == <<"w", "i", "n", "d">>
Txt_brass == <<"b", "r", "a", "s", "s">>
Txt_Brass == <<"B", "r", "a", "s", "s">>
Txt_elite == <<"e", "l", "i", "t", "e">>
Alb_2023 == <<"N", "M", " ", "2", "0", "2", "3">>
Alb_2022 == <<"N", "M", " ", "2", "0", "2", "2">>
Alb_plain == <<"N", "M">>

TextUniverse ==
    MatchPieces \cup MatchBands \cup MatchTitles \cup MatchArtists
    \cup {Txt_Ab, Txt_Div1, Txt_Elite}

NormalizedTable ==
    [a \in TextUniverse \X BOOLEAN |-> normalize_title(a[1], a[2])] @@ <<>>

Normalized(value, remove_parentheticals) ==
    NormalizedTable[<<value, remove_parentheticals>>]

SlugUniverse == {NormalizedTable[a] : a \in DOMAIN NormalizedTable}

SimilarityTable ==
    [a \in SlugUniverse \X SlugUniverse |-> similarity_score(a[1], a[2])] @@ <<>>

Similarity(piece_slug, track_slug) == SimilarityTable[<<piece_slug, track_slug>>]

---------------------------------------------------------------------------
(* Data structures.                                                        *)

Performance(year, division, band, piece) ==
    [year |-> year, division |-> division, band |-> band, piece |-> piece]

\* A Track as the collectors build it from a provider's track item
\* (slug_primary, slug_full and the de-duplicated slug_variants).
SlugVariants(slug_primary, slug_full) ==
    (IF slug_primary # <<>> THEN <<slug_primary>> ELSE <<>>)
    \o (IF slug_full # <<>> /\ slug_full # slug_primary THEN <<slug_full>> ELSE <<>>)

TrackWith(platform, title, url, album, album_id, artist, slug_primary, slug_variants) ==
    [platform |-> platform,
     title |-> title,
     slug |-> IF slug_variants # <<>> THEN slug_variants[1] ELSE slug_primary,
     slug_variants |-> IF slug_variants # <<>> THEN slug_variants ELSE <<slug_primary>>,
     url |-> url,
     album |-> album,
     album_id |-> album_id,
     artist |-> artist,
     match_score |-> Frac(0, 1)]

Track(platform, title, url, album, album_id, artist) ==
    TrackWith(platform, title, url, album, album_id, artist,
              Normalized(title, TRUE),
              SlugVariants(Normalized(title, TRUE), Normalized(title, FALSE)))

---------------------------------------------------------------------------
(* PerformanceMatcher: the loop shared by match_spotify and match_apple.   *)

MatchThreshold == Frac(13, 20)   \* 0.65

\* max over the track's slug variants, starting from 0.0
RECURSIVE piece_match_score(_, _)
piece_match_score(piece_slug, slug_variants) ==
    IF slug_variants = <<>> THEN Frac(0, 1)
    ELSE FracMax(Similarity(piece_slug, Head(slug_variants)),
                 piece_match_score(piece_slug, Tail(slug_variants)))

band_match_score(band_slug, track) ==
    IF track.artist # <<>> /\ band_slug # <<>>
    THEN Similarity(band_slug, Normalized(track.artist, TRUE))
    ELSE Frac(0, 1)

\* wp/10 * p + wb/10 * b
Blend(wp, p, wb, b) == Frac(wp * p[1] * b[2] + wb * b[1] * p[2], 10 * p[2] * b[2])

\* Mutant: the weights of the strong-artist blend swapped.
combined_score_swapped(p, b) ==
    IF FracLt(Frac(7, 10), b) THEN Blend(4, p, 6, b)
    ELSE IF FracLt(Frac(4, 10), b) THEN Blend(8, p, 2, b)
    ELSE p

combined_score(p, b) ==
    IF FracLt(Frac(7, 10), b) THEN Blend(6, p, 4, b)
    ELSE IF FracLt(Frac(4, 10), b) THEN Blend(8, p, 2, b)
    ELSE p

TrackCombined(performance, track) ==
    combined_score(
        piece_match_score(Normalized(performance.piece, TRUE), track.slug_variants),
        band_match_score(Normalized(performance.band, TRUE), track))

\* Mutant: a later track of equal score replaces the best match.
RECURSIVE BestFrom_last(_, _, _, _)
BestFrom_last(combined, i, best_match, best_score) ==
    IF i > Len(combined) THEN <<best_match, best_score>>
    ELSE IF FracLe(best_score, combined[i]) /\ combined[i][1] > 0
         THEN BestFrom_last(combined, i + 1, i, combined[i])
         ELSE BestFrom_last(combined, i + 1, best_match, best_score)

\* The scan `if combined_score > best_score`: <<index of best_match (0: None),
\* best_score>> after the tracks from position i on.
RECURSIVE BestFrom(_, _, _, _)
BestFrom(combined, i, best_match, best_score) ==
    IF i > Len(combined) THEN <<best_match, best_score>>
    ELSE IF FracLt(best_score, combined[i])
         THEN BestFrom(combined, i + 1, i, combined[i])
         ELSE BestFrom(combined, i + 1, best_match, best_score)

NoMatch == [track |-> 0, score |-> Frac(0, 1)]

\* Mutant: the acceptance threshold lowered to 0.6.
AcceptsFromSixTenths(best_score) == FracLe(Frac(6, 10), best_score)

Accepts(best_score) == FracLe(MatchThreshold, best_score)

\* `if best_match and best_score >= 0.65` on the outcome <<best_match, best_score>>.
Returned(best) ==
    IF best[1] # 0 /\ Accepts(best[2])
    THEN [track |-> best[1], score |-> best[2]]
    ELSE NoMatch

\* What match_spotify / match_apple return for a track list: the position of
\* the returned Track in the list (0: None) and the score stored in it.
MatchIn(performance, tracks) ==
    IF tracks = <<>> THEN NoMatch
    ELSE Returned(BestFrom([i \in 1..Len(tracks) |->
                               TrackCombined(performance, tracks[i])],
                           1, 0, Frac(0, 1)))

\* best_match.match_score = best_score: the Track in the memoised list is mutated.
StoreScore(tracks, m) ==
    IF m.track = 0 THEN tracks
    ELSE [tracks EXCEPT ![m.track].match_score = m.score]


---------------------------------------------------------------------------
(* Python values: truthiness, dict.get, `or`, str(), int().                *)

TrueVal == <<"true">>
FalseVal == <<"false">>

Truthy(v) == v \notin {NoneVal, Absent, <<>>, FalseVal}

\* a or b
Or(a, b) == IF Truthy(a) THEN a ELSE b

\* d.get(f): None for a missing key
Get(d, f) == IF d[f] = Absent THEN NoneVal ELSE d[f]

RECURSIVE Str(_)
Str(n) ==
    IF n < 10 THEN <<DigitChars[n + 1]>>
    ELSE Str(n \div 10) \o <<DigitChars[(n % 10) + 1]>>

RECURSIVE ParseInt(_)
ParseInt(digits) ==
    IF digits = <<>> THEN 0
    ELSE 10 * ParseInt(SubSeq(digits, 1, Len(digits) - 1))
         + (IndexIn(DigitChars, digits[Len(digits)]) - 1)

\* str(v) of a text or of None
PyStr(v) == IF v = NoneVal THEN <<"N", "o", "n", "e">> ELSE v

RECURSIVE LStrip(_)
LStrip(value) ==
    IF value # <<>> /\ Head(value) = " " THEN LStrip(Tail(value)) ELSE value

RECURSIVE RStrip(_)
RStrip(value) ==
    IF value # <<>> /\ value[Len(value)] = " "
    THEN RStrip(SubSeq(value, 1, Len(value) - 1)) ELSE value

strip(value) == RStrip(LStrip(value))

LowerText(value) == [i \in 1..Len(value) |-> lower(value[i])]

\* Python's < on strings: lexicographic by code point.
RECURSIVE TextLt(_, _)
TextLt(a, b) ==
    IF b = <<>> THEN FALSE
    ELSE IF a = <<>> THEN TRUE
    ELSE IF ord(Head(a)) # ord(Head(b)) THEN ord(Head(a)) < ord(Head(b))
    ELSE TextLt(Tail(a), Tail(b))

---------------------------------------------------------------------------
(* Overrides.                                                              *)

make_lookup_slug(value) ==
    IF ~Truthy(value) THEN NoneVal
    ELSE LET normalized == Normalized(value, TRUE) IN
         IF normalized # <<>> THEN normalized ELSE LowerText(strip(value))

build_override_key(year, division_slug, band_slug, piece_slug) ==
    IF division_slug = NoneVal \/ band_slug = NoneVal \/ piece_slug = NoneVal
    THEN NoneVal
    ELSE Str(year) \o <<"|">> \o division_slug \o <<"|">> \o band_slug
         \o <<"|">> \o piece_slug

ALLOWED_FIELDS ==
    {"spotify", "apple_music", "album", "recording_title",
     "alternate_result_piece_slugs", "result_piece", "notes",
     "allow_album_mismatch", "band_type"}

\* The keys an override entry of the document may carry.
EntryKeys ==
    ALLOWED_FIELDS \cup {"year", "division", "band", "piece", "division_slug",
                         "band_slug", "piece_slug", "result_piece_slug", "type"}

\* dict[key] = value on an insertion-ordered dict of [key, fields, meta] items.
DictSet(items, item) ==
    IF \E i \in 1..Len(items) : items[i].key = item.key
    THEN [i \in 1..Len(items) |-> IF items[i].key = item.key THEN item ELSE items[i]]
    ELSE Append(items, item)

\* One pass of the loop of from_file over a raw entry.
LoadEntry(overrides, entry) ==
    LET year == Get(entry, "year")
        division == Get(entry, "division")
        band == Get(entry, "band")
        piece == Or(Get(entry, "piece"), Get(entry, "result_piece"))
        division_slug == Or(Get(entry, "division_slug"), make_lookup_slug(division))
        band_slug == Or(Get(entry, "band_slug"), make_lookup_slug(band))
        piece_slug == Or(Or(Get(entry, "piece_slug"), Get(entry, "result_piece_slug")),
                         make_lookup_slug(piece))
        fields == [f \in ALLOWED_FIELDS |-> entry[f]]
        entry_band_type ==
            LowerText(strip(Or(Or(Get(entry, "band_type"), Get(entry, "type")), <<>>)))
    IN IF year = NoneVal \/ division_slug = NoneVal \/ band_slug = NoneVal
          \/ piece_slug = NoneVal
       THEN overrides
       ELSE IF \A f \in ALLOWED_FIELDS : fields[f] = Absent THEN overrides
       ELSE IF entry_band_type # <<>>
               /\ entry_band_type \notin {<<"w", "i", "n", "d">>, <<"b", "r", "a", "s", "s">>}
       THEN overrides
       ELSE DictSet(overrides,
                [key |-> build_override_key(ParseInt(year), division_slug, band_slug,
                                            piece_slug),
                 fields |-> fields,
                 meta |-> [year |-> ParseInt(year),
                           division |-> division,
                           band |-> band,
                           piece |-> piece,
                           division_slug |-> division_slug,
                           band_slug |-> band_slug,
                           piece_slug |-> piece_slug,
                           band_type |-> IF entry_band_type # <<>>
                                         THEN entry_band_type ELSE NoneVal]])

\* StreamingOverrideResolver.from_file on a document holding raw_entries.
RECURSIVE LoadFrom(_, _)
LoadFrom(overrides, raw_entries) ==
    IF raw_entries = <<>> THEN overrides
    ELSE LoadFrom(LoadEntry(overrides, Head(raw_entries)), Tail(raw_entries))

from_file(raw_entries) == LoadFrom(<<>>, raw_entries)

PerformanceKey(performance) ==
    build_override_key(performance.year,
                       make_lookup_slug(performance.division),
                       make_lookup_slug(performance.band),
                       make_lookup_slug(performance.piece))

HasKey(overrides, key) == \E i \in 1..Len(overrides) : overrides[i].key = key

EntryOf(overrides, key) ==
    overrides[CHOOSE i \in 1..Len(overrides) : overrides[i].key = key]

\* The filter `entry_band_type and entry_band_type != self._band_type`.
OtherBandType(entry, band_type) ==
    Truthy(entry.meta.band_type) /\ entry.meta.band_type # band_type

\* StreamingOverrideResolver.lookup: <<returned fields or NoFields, _applied_keys>>.
NoFields == [f \in ALLOWED_FIELDS |-> Absent]

\* Mutant: a returned key is not recorded as applied.
lookup_forgetting(overrides, applied_keys, band_type, performance) ==
    LET key == PerformanceKey(performance) IN
    IF key # NoneVal /\ HasKey(overrides, key)
       /\ ~OtherBandType(EntryOf(overrides, key), band_type)
    THEN [hit |-> TRUE, fields |-> EntryOf(overrides, key).fields,
          applied |-> applied_keys]
    ELSE [hit |-> FALSE, fields |-> NoFields, applied |-> applied_keys]

lookup(overrides, applied_keys, band_type, performance) ==
    LET key == PerformanceKey(performance) IN
    IF key # NoneVal /\ HasKey(overrides, key)
    THEN IF OtherBandType(EntryOf(overrides, key), band_type)
         THEN [hit |-> FALSE, fields |-> NoFields, applied |-> applied_keys]
         ELSE [hit |-> TRUE, fields |-> EntryOf(overrides, key).fields,
               applied |-> applied_keys \cup {key}]
    ELSE [hit |-> FALSE, fields |-> NoFields, applied |-> applied_keys]

\* Mutant: the applied keys are not left out.
remaining_entries_all(overrides, applied_keys, band_type, year) ==
    SelectSeq(overrides,
              LAMBDA entry : /\ ~OtherBandType(entry, band_type)
                             /\ entry.meta.year = year)

\* Mutant: no leftover is reported.
remaining_entries_none(overrides, applied_keys, band_type, year) == <<>>

\* StreamingOverrideResolver.remaining_entries(year=year), in dict order.
remaining_entries(overrides, applied_keys, band_type, year) ==
    SelectSeq(overrides,
              LAMBDA entry : /\ entry.key \notin applied_keys
                             /\ ~OtherBandType(entry, band_type)
                             /\ entry.meta.year = year)


---------------------------------------------------------------------------
(* Output records and the yearly aggregator.                               *)

\* The Track a match result refers to (the memoised Track object), or None.
RefersTo(tracks, m) == IF m.track = 0 THEN <<>> ELSE <<tracks[m.track]>>

\* StreamingMatch.to_dict for the tracks (one-element or empty) of the match.
to_dict(performance, spotify, apple_music) ==
    LET track == spotify \o apple_music IN   \* self.spotify or self.apple_music
    [year |-> performance.year,
     division |-> performance.division,
     band |-> performance.band,
     result_piece |-> performance.piece,
     recording_title |-> IF track # <<>> THEN track[1].title ELSE NoneVal,
     album |-> IF track # <<>> THEN track[1].album ELSE NoneVal,
     spotify |-> IF spotify # <<>> THEN spotify[1].url ELSE NoneVal,
     apple_music |-> IF apple_music # <<>> THEN apple_music[1].url ELSE NoneVal,
     alternate_result_piece_slugs |-> Absent,
     notes |-> Absent,
     band_type |-> Absent]

\* for key, value in override.items(): entry_dict[key] = value
\* (every field of the override but allow_album_mismatch)
Patched(entry_dict, override) ==
    [f \in DOMAIN entry_dict |->
        IF f \in ALLOWED_FIELDS /\ f # "allow_album_mismatch" /\ override[f] # Absent
        THEN override[f] ELSE entry_dict[f]]

\* The year test of build_year_streaming_entries on the record's album.
AlbumOfYear(album_value, year) ==
    LET album_text == PyStr(Or(album_value, <<>>)) IN
    album_text # <<>> /\ Contains(album_text, Str(year))

\* The record the second loop appends for a match, as a list of 0 or 1.
SerialisedMatch(year, entry_dict, found) ==
    LET patched == IF found.hit THEN Patched(entry_dict, found.fields) ELSE entry_dict
        allow_mismatch == found.hit /\ Truthy(Get(found.fields, "allow_album_mismatch"))
    IN IF ~allow_mismatch /\ ~AlbumOfYear(Get(patched, "album"), year)
       THEN <<>> ELSE <<patched>>

\* The record the third loop appends for a leftover override, as a list of 0 or 1.
SerialisedLeftover(year, leftover) ==
    LET fields == leftover.fields
        meta == leftover.meta
    IN IF ~(Truthy(Get(fields, "spotify")) \/ Truthy(Get(fields, "apple_music")))
       THEN <<>>
       ELSE IF ~Truthy(Get(fields, "allow_album_mismatch"))
               /\ ~AlbumOfYear(Get(fields, "album"), year)
       THEN <<>>
       ELSE <<[year |-> meta.year,
               division |-> meta.division,
               band |-> meta.band,
               result_piece |-> meta.piece,
               recording_title |-> Get(fields, "recording_title"),
               album |-> Get(fields, "album"),
               spotify |-> Get(fields, "spotify"),
               apple_music |-> Get(fields, "apple_music"),
               alternate_result_piece_slugs |-> fields["alternate_result_piece_slugs"],
               notes |-> Absent,
               band_type |-> Absent]>>

RECURSIVE SerialisedLeftovers(_, _)
SerialisedLeftovers(year, leftovers) ==
    IF leftovers = <<>> THEN <<>>
    ELSE SerialisedLeftover(year, Head(leftovers))
         \o SerialisedLeftovers(year, Tail(leftovers))

\* The sort key (year, str(division), str(band), str(result_piece)) and the
\* order of Python tuples on it.
SortKey(entry) ==
    <<entry.year, PyStr(entry.division), PyStr(entry.band), PyStr(entry.result_piece)>>

KeyLt(k, l) ==
    \/ k[1] < l[1]
    \/ k[1] = l[1] /\ TextLt(k[2], l[2])
    \/ k[1] = l[1] /\ k[2] = l[2] /\ TextLt(k[3], l[3])
    \/ k[1] = l[1] /\ k[2] = l[2] /\ k[3] = l[3] /\ TextLt(k[4], l[4])

\* list.sort(key=...): stable.
RECURSIVE InsertSorted(_, _)
InsertSorted(sorted, entry) ==
    IF sorted = <<>> THEN <<entry>>
    ELSE IF KeyLt(SortKey(entry), SortKey(sorted[Len(sorted)]))
         THEN Append(InsertSorted(SubSeq(sorted, 1, Len(sorted) - 1), entry),
                     sorted[Len(sorted)])
         ELSE Append(sorted, entry)

RECURSIVE SortFrom(_, _)
SortFrom(sorted, entries) ==
    IF entries = <<>> THEN sorted
    ELSE SortFrom(InsertSorted(sorted, Head(entries)), Tail(entries))

\* Mutant: the final sort left out.
sort_entries_skipped(entries) == entries

sort_entries(entries) == SortFrom(<<>>, entries)


---------------------------------------------------------------------------
(* Files: a per-year file and the aggregate file, as json.loads sees them. *)
(* kind "missing": no such file; "garbage": not JSON; "object": a JSON     *)
(* object; "array": a JSON array; "other": any other JSON value.           *)

NoFile == [kind |-> "missing", entries |-> <<>>]

\* The payload write_year_file dumps (band_type and year are not read back).
YearPayload(entries) == [kind |-> "object", entries |-> entries]

\* payload.get("entries") or [] of an object, the payload itself of an array.
YearFileEntries(file) ==
    IF file.kind \in {"object", "array"} THEN file.entries ELSE <<>>

\* The entries of all year files, in the order of sorted(year_dir.glob("*.json")).
RECURSIVE ConcatYears(_, _)
ConcatYears(year_files, years) ==
    IF years = {} THEN <<>>
    ELSE LET first == Min(years) IN
         YearFileEntries(year_files[first]) \o ConcatYears(year_files, years \ {first})

NoAggregate == [kind |-> "missing", keys |-> {}, wind |-> <<>>, brass |-> <<>>]

\* Mutant: the aggregate is written from scratch.
combine_year_files_fresh(year_files, aggregate, band_type) ==
    [kind |-> "object",
     keys |-> {"wind", "brass"},
     wind |-> IF band_type = Txt_wind
              THEN sort_entries(ConcatYears(year_files, DOMAIN year_files)) ELSE <<>>,
     brass |-> IF band_type = Txt_brass
               THEN sort_entries(ConcatYears(year_files, DOMAIN year_files)) ELSE <<>>]

\* Mutant: the new entries appended to the section the aggregate file held.
combine_year_files_patching(year_files, aggregate, band_type) ==
    LET combined == sort_entries(ConcatYears(year_files, DOMAIN year_files)) IN
    [kind |-> "object",
     keys |-> aggregate.keys \cup {"wind", "brass"},
     wind |-> IF band_type = Txt_wind THEN aggregate.wind \o combined ELSE aggregate.wind,
     brass |-> IF band_type = Txt_brass THEN aggregate.brass \o combined
               ELSE aggregate.brass]

\* combine_year_files: the aggregate file it writes.
combine_year_files(year_files, aggregate, band_type) ==
    LET existing == aggregate.kind = "object"
        old_wind == IF existing /\ "wind" \in aggregate.keys THEN aggregate.wind ELSE <<>>
        old_brass == IF existing /\ "brass" \in aggregate.keys
                     THEN aggregate.brass ELSE <<>>
        combined == sort_entries(ConcatYears(year_files, DOMAIN year_files))
    IN [kind |-> "object",
        keys |-> {"wind", "brass"} \cup (IF existing THEN aggregate.keys ELSE {}),
        wind |-> IF band_type = Txt_wind THEN combined ELSE old_wind,
        brass |-> IF band_type = Txt_brass THEN combined ELSE old_brass]

\* aggregate_data[band_type] of an aggregate file
Section(aggregate, band_type) ==
    IF band_type = Txt_wind THEN aggregate.wind ELSE aggregate.brass

---------------------------------------------------------------------------
(* SpecBuild: one run for one year: build_year_streaming_entries, then      *)
(* write_year_file, then combine_year_files.                                *)

MaxPerfs == 2
MaxOverrides == 2
MaxFileSteps == 3
BuildYear == 2023
OtherYear == 2022

Divisions == {Txt_Elite, Txt_Div1}

BuildPerformances ==
    {Performance(BuildYear, Txt_Elite, Txt_ab, piece) :
         piece \in {Txt_ab, Txt_Ab, Txt_abc, Txt_d}}
    \cup {Performance(BuildYear, Txt_Div1, Txt_ab, Txt_ab)}

\* The tracks of the provider catalogues.  The album "NM" was released in
\* the target year and does not carry the year in its name.
Sp1 == Track("spotify", Txt_ab, <<"sp:1">>, Alb_2023, <<"S1">>, Txt_ab)
Sp2 == Track("spotify", Txt_abc, <<"sp:2">>, Alb_plain, <<"S2">>, <<>>)
Ap1 == Track("apple_music", Txt_ab, <<"ap:1">>, Alb_2023, <<"A1">>, Txt_ab)

\* The year of release_date of a catalogue album.
ReleaseYear(album_id) == IF album_id = <<"S1">> THEN BuildYear + 1 ELSE BuildYear

MemoOf(spotify_tracks, apple_tracks) ==
    [spotify |-> [d \in Divisions |-> IF d = Txt_Elite THEN spotify_tracks ELSE <<>>],
     apple_music |-> [d \in Divisions |-> IF d = Txt_Elite THEN apple_tracks ELSE <<>>]]

\* What the finder holds for the year: its clients and the track lists
\* _get_spotify_tracks_for_division / _get_apple_tracks_for_division return.
FinderStates ==
    {[clients |-> {"spotify"}, memo |-> MemoOf(<<Sp1, Sp2>>, <<>>)],
     [clients |-> {"apple_music"}, memo |-> MemoOf(<<>>, <<Ap1>>)],
     [clients |-> {"spotify", "apple_music"}, memo |-> MemoOf(<<Sp2>>, <<Ap1>>)],
     [clients |-> {"spotify", "apple_music"}, memo |-> MemoOf(<<>>, <<>>)]}

RawEntry(year, division, band, piece) ==
    [k \in EntryKeys |->
        CASE k = "year" -> year
          [] k = "division" -> division
          [] k = "band" -> band
          [] k = "piece" -> piece
          [] OTHER -> Absent]

\* The entries an override document is made of.
OverrideEntries ==
    {[spotify |-> <<"sp:o1">>, album |-> Alb_2023, notes |-> <<"note">>]
         @@ RawEntry(Str(BuildYear), Txt_Elite, Txt_ab, Txt_ab),
     [apple_music |-> <<"ap:o2">>, album |-> Alb_plain, allow_album_mismatch |-> TrueVal]
         @@ RawEntry(Str(BuildYear), Txt_Elite, Txt_ab, Txt_abc),
     [spotify |-> <<"sp:o3">>, album |-> Alb_2023, recording_title |-> <<"title:o3">>]
         @@ RawEntry(Str(BuildYear), Txt_Div1, Txt_ab, Txt_ab),
     [spotify |-> <<"sp:o4">>, album |-> Alb_2023, band_type |-> Txt_Brass]
         @@ RawEntry(Str(BuildYear), Txt_Elite, Txt_ab, Txt_Ab),
     [apple_music |-> <<"ap:o5">>, album |-> Alb_2022]
         @@ RawEntry(Str(BuildYear), Txt_Elite, Txt_ab, Txt_d),
     [spotify |-> <<"sp:o6">>, album |-> Alb_2022]
         @@ RawEntry(Str(OtherYear), Txt_Elite, Txt_ab, Txt_ab),
     [notes |-> <<"note">>]
         @@ RawEntry(Str(BuildYear), Txt_Elite, Txt_ab, Txt_d),
     [spotify |-> NoneVal, apple_music |-> <<"ap:o8">>, album |-> Alb_2023,
      result_piece |-> Txt_abc, division_slug |-> Txt_elite,
      alternate_result_piece_slugs |-> <<"slugs:o8">>]
         @@ RawEntry(Str(BuildYear), Absent, Txt_ab, Absent)}

BuildIdle ==
    /\ bBandType = <<>>
    /\ bPerfs = <<>>
    /\ bClients = {}
    /\ bMemo = MemoOf(<<>>, <<>>)
    /\ bOverrides = <<>>
    /\ bApplied = {}
    /\ bMatches = <<>>
    /\ bSerialised = <<>>
    /\ bEntries = <<>>
    /\ bPc = "idle"
    /\ bIdx = 0
    /\ bLog = <<>>
    /\ bOrigins = <<>>
    /\ bYearFiles = [y \in {OtherYear, BuildYear} |-> NoFile]
    /\ bAggregate = NoAggregate
    /\ bBefore = NoAggregate
    /\ bRepeat = FALSE
    /\ bSteps = 0

MatchIdle ==
    /\ mPerf = Performance(MatchYear, <<>>, <<>>, <<>>)
    /\ mTracks = <<>>
    /\ mCombined = <<>>
    /\ mResult = NoMatch
    /\ mPc = "idle"

NoCache == [exists |-> FALSE, album_tracks |-> <<>>, dirty |-> FALSE]

FinderIdle ==
    /\ fInput = <<>>
    /\ fRun = 0
    /\ fPc = "idle"
    /\ fRemaining = {}
    /\ fCandidates = <<>>
    /\ fFiltered = <<>>
    /\ fIdx = 0
    /\ fSeenTrackIds = {}
    /\ fTracks = <<>>
    /\ fCache = NoCache
    /\ fFetched = {}
    /\ fDiscovered = {}
    /\ fResult = <<>>
    /\ fFirst = <<>>
    /\ fMemo = <<>>
    /\ fCall = 0
    /\ fCalls = [searches |-> 0, listings |-> 0, listed |-> <<>>]
    /\ fSeen = [calls |-> [searches |-> 0, listings |-> 0, listed |-> <<>>],
                tracks |-> <<>>]
    /\ fFile = <<>>

RunIdle ==
    /\ rInput = [dataset |-> {}]
    /\ rPc = "idle"
    /\ rTargets = {}
    /\ rMatched = FALSE
    /\ rWritten = {}
    /\ rCombined = FALSE
    /\ rSaved = FALSE
    /\ rReturn = -1
    /\ rDirty = FALSE
    /\ rStored = FALSE
    /\ rCacheFile = "untouched"

TextIdle ==
    /\ tX = <<>>
    /\ tY = <<>>
    /\ tRemove = FALSE
    /\ tOut = <<"idle">>

ScoreIdle ==
    /\ sDivision = <<>>
    /\ sAlbums = <<>>
    /\ sScores = <<"idle">>

LoadIdle ==
    /\ lDoc = [kind |-> "idle"]
    /\ lBandType = <<>>
    /\ lPc = "idle"
    /\ lIdx = 0
    /\ lOverrides = <<>>
    /\ lApplied = {}
    /\ lFound = <<>>
    /\ lRemaining = <<>>

ShareIdle ==
    /\ xFile = [kind |-> "idle"]
    /\ xPc = <<>>
    /\ xData = <<>>
    /\ xDirty = <<>>
    /\ xStored = <<>>
    /\ xWriters = <<"idle">>

\* A specification starts with the state of the others at rest.
OthersIdle(own) ==
    /\ IF own = "match" THEN TRUE ELSE MatchIdle
    /\ IF own = "build" THEN TRUE ELSE BuildIdle
    /\ IF own = "finder" THEN TRUE ELSE FinderIdle
    /\ IF own = "run" THEN TRUE ELSE RunIdle
    /\ IF own = "text" THEN TRUE ELSE TextIdle
    /\ IF own = "score" THEN TRUE ELSE ScoreIdle
    /\ IF own = "load" THEN TRUE ELSE LoadIdle
    /\ IF own = "share" THEN TRUE ELSE ShareIdle

BuildInit ==
    /\ OthersIdle("build")
    /\ bBandType \in {Txt_wind, Txt_brass}
    /\ bPerfs \in SeqUpTo(BuildPerformances, MaxPerfs) \ {<<>>}
    /\ \E finder \in FinderStates :
           /\ bClients = finder.clients
           /\ bMemo = finder.memo
    /\ \E raw_entries \in SeqUpTo(OverrideEntries, MaxOverrides) :
           bOverrides = from_file(raw_entries)
    /\ bApplied = {}
    /\ bMatches = <<>>
    /\ bSerialised = <<>>
    /\ bEntries = <<>>
    /\ bPc = "match"
    /\ bIdx = 1
    /\ bLog = <<>>
    /\ bOrigins = <<>>
    /\ bYearFiles = [y \in {OtherYear, BuildYear} |-> NoFile]
    /\ bAggregate = NoAggregate
    /\ bBefore = NoAggregate
    /\ bRepeat = FALSE
    /\ bSteps = 0

\* Files another run or an editor may have left beside the year's file.
Rec22(band, piece) ==
    [year |-> OtherYear, division |-> Txt_Elite, band |-> band, result_piece |-> piece,
     recording_title |-> piece, album |-> Alb_2022, spotify |-> <<"sp:22">>,
     apple_music |-> NoneVal, alternate_result_piece_slugs |-> Absent,
     notes |-> Absent, band_type |-> Absent]

OtherYearFiles ==
    {NoFile,
     [kind |-> "garbage", entries |-> <<>>],
     [kind |-> "other", entries |-> <<>>],
     [kind |-> "object", entries |-> <<Rec22(Txt_ab, Txt_ab)>>],
     [kind |-> "array", entries |-> <<Rec22(Txt_ab, Txt_d), Rec22(Txt_ab, Txt_abc)>>]}

Aggregates ==
    {NoAggregate,
     [kind |-> "garbage", keys |-> {}, wind |-> <<>>, brass |-> <<>>],
     [kind |-> "other", keys |-> {}, wind |-> <<>>, brass |-> <<>>],
     [kind |-> "object", keys |-> {"wind", "brass"},
      wind |-> <<Rec22(Txt_ab, Txt_d)>>, brass |-> <<Rec22(Txt_ab, Txt_abc)>>],
     [kind |-> "object", keys |-> {"brass", "generated"},
      wind |-> <<>>, brass |-> <<Rec22(Txt_ab, Txt_d), Rec22(Txt_ab, Txt_ab)>>]}

\* Mutant: records are serialised for every performance.
HasAcceptedMatch_any(m) == TRUE

\* match.spotify or match.apple_music
HasAcceptedMatch(m) == m.spotify.track # 0 \/ m.apple_music.track # 0

\* The position after the loop body at index idx of a list of length n.
AfterItem(idx, n, next_pc) ==
    IF idx < n THEN /\ bIdx' = idx + 1
                    /\ bPc' = bPc
    ELSE /\ bIdx' = 1
         /\ bPc' = next_pc

\* First loop of build_year_streaming_entries: one performance is matched.
MatchPerformance ==
    /\ bPc = "match"
    /\ bMatches' =
           Append(bMatches,
                  [performance |-> bPerfs[bIdx],
                   spotify |-> IF "spotify" \in bClients
                               THEN MatchIn(bPerfs[bIdx],
                                            bMemo.spotify[bPerfs[bIdx].division])
                               ELSE NoMatch,
                   apple_music |-> IF "apple_music" \in bClients
                                   THEN MatchIn(bPerfs[bIdx],
                                                bMemo.apple_music[bPerfs[bIdx].division])
                                   ELSE NoMatch])
    /\ bMemo' = [spotify |->
                     [bMemo.spotify EXCEPT ![bPerfs[bIdx].division] =
                          StoreScore(@, bMatches'[Len(bMatches')].spotify)],
                 apple_music |->
                     [bMemo.apple_music EXCEPT ![bPerfs[bIdx].division] =
                          StoreScore(@, bMatches'[Len(bMatches')].apple_music)]]
    /\ AfterItem(bIdx, Len(bPerfs), "serialise")
    /\ UNCHANGED <<besideBuild, bBandType, bPerfs, bClients, bOverrides, bApplied,
                   bSerialised, bEntries, bLog, bOrigins, bYearFiles, bAggregate,
                   bBefore, bRepeat, bSteps>>

\* Second loop: one match is serialised, patched by its override and gated.
SerialiseMatch ==
    /\ bPc = "serialise"
    /\ LET m == bMatches[bIdx]
           performance == m.performance
           division == performance.division
           key == PerformanceKey(performance)
           found == lookup(bOverrides, bApplied, bBandType, performance)
           entry_dict == to_dict(performance,
                                 RefersTo(bMemo.spotify[division], m.spotify),
                                 RefersTo(bMemo.apple_music[division], m.apple_music))
           records == SerialisedMatch(performance.year, entry_dict, found)
       IN IF ~HasAcceptedMatch(m)
          THEN /\ bLog' = Append(bLog, [perf |-> bIdx, looked |-> FALSE, key |-> key,
                                        hit |-> FALSE, fields |-> NoFields,
                                        kept |-> FALSE])
               /\ UNCHANGED <<bApplied, bSerialised, bOrigins>>
          ELSE /\ bLog' = Append(bLog, [perf |-> bIdx, looked |-> TRUE, key |-> key,
                                        hit |-> found.hit, fields |-> found.fields,
                                        kept |-> records # <<>>])
               /\ bApplied' = found.applied
               /\ bSerialised' = bSerialised \o records
               /\ bOrigins' = bOrigins \o
                      [i \in 1..Len(records) |-> [kind |-> "match", perf |-> bIdx,
                                                  key |-> key]]
    /\ AfterItem(bIdx, Len(bMatches), "leftover")
    /\ UNCHANGED <<besideBuild, bBandType, bPerfs, bClients, bMemo, bOverrides, bMatches,
                   bEntries, bYearFiles, bAggregate, bBefore, bRepeat, bSteps>>

RECURSIVE LeftoverOrigins(_, _)
LeftoverOrigins(year, leftovers) ==
    IF leftovers = <<>> THEN <<>>
    ELSE [i \in 1..Len(SerialisedLeftover(year, Head(leftovers))) |->
             [kind |-> "override", perf |-> 0, key |-> Head(leftovers).key]]
         \o LeftoverOrigins(year, Tail(leftovers))

\* Third loop and the final sort: build_year_streaming_entries returns.
SerialiseLeftovers ==
    /\ bPc = "leftover"
    /\ LET leftovers == remaining_entries(bOverrides, bApplied, bBandType, BuildYear)
           serialised == bSerialised \o SerialisedLeftovers(BuildYear, leftovers)
       IN /\ bSerialised' = serialised
          /\ bOrigins' = bOrigins \o LeftoverOrigins(BuildYear, leftovers)
          /\ bEntries' = sort_entries(serialised)
    /\ bPc' = "built"
    /\ UNCHANGED <<besideBuild, bBandType, bPerfs, bClients, bMemo, bOverrides, bApplied,
                   bMatches, bIdx, bLog, bYearFiles, bAggregate, bBefore, bRepeat,
                   bSteps>>

\* write_year_file; the locals of build_year_streaming_entries are gone.
write_year_file ==
    /\ bPc = "built"
    /\ bYearFiles' = [bYearFiles EXCEPT ![BuildYear] = YearPayload(bEntries)]
    /\ bPc' = "written"
    /\ bPerfs' = <<>>
    /\ bClients' = {}
    /\ bMemo' = MemoOf(<<>>, <<>>)
    /\ bOverrides' = <<>>
    /\ bApplied' = {}
    /\ bMatches' = <<>>
    /\ bSerialised' = <<>>
    /\ bEntries' = <<>>
    /\ bIdx' = 0
    /\ bLog' = <<>>
    /\ bOrigins' = <<>>
    /\ UNCHANGED <<besideBuild, bBandType, bAggregate, bBefore, bRepeat, bSteps>>

\* The file of another year is replaced (an earlier run, or an editor).
OtherYearFileChanges ==
    /\ bPc \in {"written", "combined"}
    /\ bSteps < MaxFileSteps
    /\ \E file \in OtherYearFiles \ {bYearFiles[OtherYear]} :
           bYearFiles' = [bYearFiles EXCEPT ![OtherYear] = file]
    /\ bPc' = "written"
    /\ bSteps' = bSteps + 1
    /\ UNCHANGED <<besideBuild, bBandType, bPerfs, bClients, bMemo, bOverrides, bApplied,
                   bMatches, bSerialised, bEntries, bIdx, bLog, bOrigins, bAggregate,
                   bBefore, bRepeat>>

\* The aggregate file is replaced by a stale or damaged one.
AggregateChanges ==
    /\ bPc \in {"written", "combined"}
    /\ bSteps < MaxFileSteps
    /\ \E file \in Aggregates \ {bAggregate} : bAggregate' = file
    /\ bPc' = "written"
    /\ bSteps' = bSteps + 1
    /\ UNCHANGED <<besideBuild, bBandType, bPerfs, bClients, bMemo, bOverrides, bApplied,
                   bMatches, bSerialised, bEntries, bIdx, bLog, bOrigins, bYearFiles,
                   bBefore, bRepeat>>

\* combine_year_files(output_dir, aggregate_path, band_type)
Combine ==
    /\ bPc \in {"written", "combined"}
    /\ bSteps < MaxFileSteps
    /\ bAggregate' = combine_year_files(bYearFiles, bAggregate, bBandType)
    /\ bBefore' = bAggregate
    /\ bRepeat' = (bPc = "combined")
    /\ bPc' = "combined"
    /\ bSteps' = bSteps + 1
    /\ UNCHANGED <<besideBuild, bBandType, bPerfs, bClients, bMemo, bOverrides, bApplied,
                   bMatches, bSerialised, bEntries, bIdx, bLog, bOrigins, bYearFiles>>

BuildNext ==
    \/ MatchPerformance
    \/ SerialiseMatch
    \/ SerialiseLeftovers
    \/ write_year_file
    \/ OtherYearFileChanges
    \/ AggregateChanges
    \/ Combine

SpecBuild == BuildInit /\ [][BuildNext]_vars

---------------------------------------------------------------------------
(* SpecMatch: match_spotify / match_apple applied to every bounded input.  *)

MaxTracks == 2

UrlOf(i) == <<"url", ToString(i)>>

MatchInit ==
    /\ \E piece \in MatchPieces, band \in MatchBands :
           mPerf = Performance(MatchYear, Txt_Elite, band, piece)
    /\ \E platform \in {"spotify", "apple_music"} :
       \E items \in SeqUpTo(MatchTitles \X MatchArtists, MaxTracks) :
           mTracks = [i \in 1..Len(items) |->
                         Track(platform, items[i][1], UrlOf(i), <<"album">>,
                               <<"id">>, items[i][2])]
    /\ mCombined = <<>>
    /\ mResult = NoMatch
    /\ mPc = "input"
    /\ OthersIdle("match")

MatchCall(platform) ==
    /\ mPc = "input"
    /\ \A i \in 1..Len(mTracks) : mTracks[i].platform = platform
    /\ mCombined' = [i \in 1..Len(mTracks) |-> TrackCombined(mPerf, mTracks[i])]
    /\ mResult' = MatchIn(mPerf, mTracks)
    /\ mTracks' = StoreScore(mTracks, mResult')
    /\ mPc' = platform
    /\ UNCHANGED <<mPerf, besideMatch>>

match_spotify == MatchCall("spotify")

match_apple == MatchCall("apple_music")

MatchNext == match_spotify \/ match_apple

SpecMatch == MatchInit /\ [][MatchNext]_vars

---------------------------------------------------------------------------
(* Album search terms and album relevance.                                 *)

Txt_NMJanitsjar == <<"N", "M", " ", "J", "a", "n", "i", "t", "s", "j", "a", "r">>
Txt_NMBrass == <<"N", "M", " ", "B", "r", "a", "s", "s">>
Txt_Elitedivisjon == <<"E", "l", "i", "t", "e", "d", "i", "v", "i", "s", "j", "o", "n">>
Txt_divisjon == <<".", " ", "d", "i", "v", "i", "s", "j", "o", "n">>
Txt_Live == <<" ", "(", "L", "i", "v", "e", ")">>
Txt_endash == <<" ", "endash", " ">>
Txt_dash == <<" ", "-", " ">>
DivisionNumbers == <<"1", "2", "3", "4", "5", "6", "7">>

\* ALBUM_PREFIXES.get(band_type, "NM Janitsjar")
ALBUM_PREFIXES(band_type) ==
    IF band_type = Txt_brass THEN Txt_NMBrass ELSE Txt_NMJanitsjar

\* "<n>. divisjon" for n in 1..7, the numbered keys of both tables
NumberedDivision(division) ==
    /\ Len(division) = 1 + Len(Txt_divisjon)
    /\ IsIn(DivisionNumbers, division[1])
    /\ Tail(division) = Txt_divisjon

\* DIVISION_ALBUM_LABELS.get(division, division)
DIVISION_ALBUM_LABELS(division) ==
    IF division = Txt_Elite THEN Txt_Elitedivisjon ELSE division

\* DIVISION_SYNONYMS.get(normalized_division, [normalized_division])
DIVISION_SYNONYMS(normalized_division) ==
    IF normalized_division = Txt_Elitedivisjon THEN <<Txt_Elitedivisjon, Txt_Elite>>
    ELSE IF NumberedDivision(normalized_division)
         THEN <<normalized_division,
                <<normalized_division[1]>> \o <<".", " ", "d", "i", "v">>,
                <<normalized_division[1]>> \o <<".", "d", "i", "v">>,
                <<normalized_division[1]>> \o <<" ", "d", "i", "v">>>>
         ELSE <<normalized_division>>

\* f"{prefix} {year}"
YearTerm(prefix, year) == prefix \o <<" ">> \o Str(year)

\* f"{prefix} {year} {div_variant}".strip()
BaseTerm(prefix, year, div_variant) ==
    strip(YearTerm(prefix, year) \o <<" ">> \o div_variant)

\* The four terms variants.update adds for one division variant.
VariantTerms(prefix, year, div_variant) ==
    {BaseTerm(prefix, year, div_variant),
     BaseTerm(prefix, year, div_variant) \o Txt_Live,
     YearTerm(prefix, year) \o Txt_endash \o div_variant \o Txt_Live,
     YearTerm(prefix, year) \o Txt_dash \o div_variant}

AllTerms(prefix, year, division_variants) ==
    {YearTerm(prefix, year)}
    \cup UNION {VariantTerms(prefix, year, division_variants[i]) :
                    i \in 1..Len(division_variants)}

\* resolve_album_search_terms builds a set of strings and returns
\* `[variant for variant in variants if variant]`: the terms are these, and
\* their order in the list is the iteration order of the set, which the
\* interpreter's string hashing decides anew in every process.
resolve_album_search_terms(year, division, band_type) ==
    {variant \in AllTerms(ALBUM_PREFIXES(band_type), year,
                          DIVISION_SYNONYMS(DIVISION_ALBUM_LABELS(division))) :
         variant # <<>>}

\* The first of "1".."7" that occurs in the normalised division, if any.
RECURSIVE FirstNumberIn(_, _)
FirstNumberIn(normalized, i) ==
    IF i > Len(DivisionNumbers) THEN <<>>
    ELSE IF Contains(normalized, <<DivisionNumbers[i]>>) THEN <<DivisionNumbers[i]>>
    ELSE FirstNumberIn(normalized, i + 1)

NumberTokens(num) ==
    IF num = <<>> THEN {}
    ELSE {num \o <<".", " ", "d", "i", "v">>, num \o <<" ", "d", "i", "v">>, num \o <<".", " ", "d", "i", "v", "i", "s", "j", "o", "n">>,
          num \o <<"-", "d", "i", "v", "i", "s", "j", "o", "n">>, num \o <<".", "d", "i", "v">>, num \o <<"d", "i", "v">>}

DivisionTokens(normalized) ==
    (IF Contains(normalized, Txt_elite)
     THEN {Txt_elite, <<"e", "l", "i", "t", "e", "d", "i", "v", "i", "s", "j", "o", "n">>, <<"e", "l", "i", "t", "e", "-", "d", "i", "v", "i", "s", "j", "o", "n">>, <<"e", "l", "i", "t", "e", " ", "d", "i", "v", "i", "s", "j", "o", "n">>}
     ELSE {})
    \cup NumberTokens(FirstNumberIn(normalized, 1))

get_division_tokens(division) == DivisionTokens(strip(LowerText(division)))

\* int(release_date[:4]) when release_date has four characters or more and
\* they are digits; -1 stands for release_year = None.
ReleaseYearOf(release_date) ==
    IF Len(release_date) >= 4 /\ \A i \in 1..4 : IsIn(DigitChars, release_date[i])
    THEN ParseInt(SubSeq(release_date, 1, 4))
    ELSE -1

ContestTokens == {<<"n", "m", " ", "b", "r", "a", "s", "s">>, <<"n", "m", " ", "j", "a", "n", "i", "t", "s", "j", "a", "r">>, <<"n", "o", "r", "g", "e", "s", "m", "e", "s", "t", "e", "r", "s", "k", "a", "p">>}

\* Mutant: only the best of the signals counts.
AlbumScore_best(album_name, release_year, album_type, year, division) ==
    IF release_year = year THEN 200
    ELSE IF \E token \in get_division_tokens(division) : Contains(album_name, token)
    THEN 150
    ELSE IF Contains(album_name, Str(year)) THEN 100 ELSE 0

AlbumScore(album_name, release_year, album_type, year, division) ==
    (IF release_year = year THEN 200 ELSE 0)
    + (IF Contains(album_name, Str(year)) THEN 100 ELSE 0)
    + (IF \E token \in get_division_tokens(division) : Contains(album_name, token)
       THEN 150 ELSE 0)
    + (IF \E token \in ContestTokens : Contains(album_name, token) THEN 20 ELSE 0)
    + (IF Contains(album_name, <<"l", "i", "v", "e">>) THEN 5 ELSE 0)
    + (IF album_type = <<"a", "l", "b", "u", "m">> THEN 2
       ELSE IF album_type = <<"s", "i", "n", "g", "l", "e">> THEN -10 ELSE 0)

\* Mutant: the score is halved.
score_album_relevance_halved(album, year, division) ==
    AlbumScore(LowerText(Or(album.name, <<>>)),
               ReleaseYearOf(Or(album.release_date, <<>>)),
               Or(album.album_type, <<>>), year, division) \div 2

score_album_relevance(album, year, division) ==
    AlbumScore(LowerText(Or(album.name, <<>>)),
               ReleaseYearOf(Or(album.release_date, <<>>)),
               Or(album.album_type, <<>>), year, division)

---------------------------------------------------------------------------
(* _get_spotify_tracks_for_division: search, filter, collect.              *)

\* The loop over the albums one search returned: a new album with an id is
\* scored and appended to candidate_albums.
RECURSIVE AppendNew(_, _, _, _)
AppendNew(candidates, albums, year, division) ==
    IF albums = <<>> THEN candidates
    ELSE IF \/ ~Truthy(Head(albums).id)
            \/ \E i \in 1..Len(candidates) : candidates[i].album.id = Head(albums).id
         THEN AppendNew(candidates, Tail(albums), year, division)
         ELSE AppendNew(Append(candidates,
                               [score |-> score_album_relevance(Head(albums), year,
                                                                division),
                                album |-> Head(albums)]),
                        Tail(albums), year, division)

\* candidate_albums.sort(key=score, reverse=True): stable, so candidates of
\* equal score stay in the order the searches found them.
RECURSIVE InsertByScore(_, _)
InsertByScore(sorted, candidate) ==
    IF sorted = <<>> THEN <<candidate>>
    ELSE IF sorted[Len(sorted)].score < candidate.score
         THEN Append(InsertByScore(SubSeq(sorted, 1, Len(sorted) - 1), candidate),
                     sorted[Len(sorted)])
         ELSE Append(sorted, candidate)

RECURSIVE SortByScoreFrom(_, _)
SortByScoreFrom(sorted, candidates) ==
    IF candidates = <<>> THEN sorted
    ELSE SortByScoreFrom(InsertByScore(sorted, Head(candidates)), Tail(candidates))

sort_candidates(candidates) == SortByScoreFrom(<<>>, candidates)

\* Mutant: the year filter lets every album through.
OfTargetYear_any(album, year) == TRUE

\* release_year == year or str(year) in album_name_lower
OfTargetYear(album, year) ==
    \/ ReleaseYearOf(Or(album.release_date, <<>>)) = year
    \/ Contains(LowerText(Or(album.name, <<>>)), Str(year))

RECURSIVE filter_albums(_, _)
filter_albums(candidates, year) ==
    IF candidates = <<>> THEN <<>>
    ELSE (IF OfTargetYear(Head(candidates).album, year)
          THEN <<Head(candidates)>> ELSE <<>>)
         \o filter_albums(Tail(candidates), year)

\* The names _discovered_album_names receives from the filter loop.
DiscoveredNames(filtered) ==
    {filtered[i].album.name : i \in {j \in 1..Len(filtered) :
                                         Truthy(filtered[j].album.name)}}

\* Mutant: a cached list that is empty counts as a miss.
CachedTracks_truthy(cache, album_id) ==
    IF cache.exists /\ album_id \in DOMAIN cache.album_tracks
       /\ cache.album_tracks[album_id] # <<>>
    THEN cache.album_tracks[album_id] ELSE NoneVal

\* cache.get_spotify_album_tracks(album_id), None without a cache object
CachedTracks(cache, album_id) ==
    IF cache.exists /\ album_id \in DOMAIN cache.album_tracks
    THEN cache.album_tracks[album_id] ELSE NoneVal

\* Mutant: the fetched list is not stored.
CacheSet_none(cache, album_id, track_items) == cache

\* cache.set_spotify_album_tracks(album_id, tracks), when there is a cache
CacheSet(cache, album_id, track_items) ==
    IF cache.exists
    THEN [exists |-> TRUE,
          album_tracks |-> (album_id :> track_items) @@ cache.album_tracks,
          dirty |-> TRUE]
    ELSE cache

\* [a.get("name") for a in artists if a.get("name")]
RECURSIVE ArtistNames(_)
ArtistNames(artists) ==
    IF artists = <<>> THEN <<>>
    ELSE (IF Truthy(Head(artists)) THEN <<Head(artists)>> ELSE <<>>)
         \o ArtistNames(Tail(artists))

\* The body of the loop over track_items on acc = [tracks, seen].
WithItem(acc, item, album) ==
    IF Truthy(item.id) /\ item.id \in acc.seen THEN acc
    ELSE [seen |-> IF Truthy(item.id) THEN acc.seen \cup {item.id} ELSE acc.seen,
          tracks |-> IF ~Truthy(item.name) \/ ~Truthy(item.url) THEN acc.tracks
                     ELSE Append(acc.tracks,
                                 Track("spotify", item.name, item.url,
                                       Or(album.name, <<>>), album.id,
                                       JoinWith(ArtistNames(item.artists),
                                                <<",", " ">>)))]

RECURSIVE CollectItems(_, _, _)
CollectItems(acc, items, album) ==
    IF items = <<>> THEN acc
    ELSE CollectItems(WithItem(acc, Head(items), album), Tail(items), album)

---------------------------------------------------------------------------
(* SpecFinder: two runs of the Spotify collector and the matcher on the    *)
(* same performance, provider answers and cache file; in each run the      *)
(* finder serves MaxCalls matches of the same year and division.           *)

AlbumCap == 15
LowScore == 10

Album(id, name, release_date, album_type) ==
    [id |-> id, name |-> name, release_date |-> release_date,
     album_type |-> album_type]

Item(id, name, url, artists) ==
    [id |-> id, name |-> name, url |-> url, artists |-> artists]

\* The provider's catalogue.  AlbumA and AlbumB are two releases of the same
\* recordings; AlbumNoId is an answer without an id.
AlbumA == Album(<<"A">>, <<"N", "M", " ", "J", "a", "n", "i", "t", "s", "j", "a", "r", " ", "2", "0", "2", "3", " ", "E", "l", "i", "t", "e", "d", "i", "v", "i", "s", "j", "o", "n">>, <<"2", "0", "2", "3", "-", "0", "2", "-", "1", "0">>, <<"a", "l", "b", "u", "m">>)
AlbumB == Album(<<"B">>, <<"N", "M", " ", "J", "a", "n", "i", "t", "s", "j", "a", "r", " ", "2", "0", "2", "3", " ", "-", " ", "E", "l", "i", "t", "e", "d", "i", "v", "i", "s", "j", "o", "n">>, <<"2", "0", "2", "3", "-", "0", "3", "-", "0", "1">>, <<"a", "l", "b", "u", "m">>)
AlbumC == Album(<<"C">>, <<"N", "M", " ", "J", "a", "n", "i", "t", "s", "j", "a", "r", " ", "2", "0", "2", "2", " ", "E", "l", "i", "t", "e", "d", "i", "v", "i", "s", "j", "o", "n">>, <<"2", "0", "2", "2", "-", "0", "2", "-", "1", "1">>, <<"a", "l", "b", "u", "m">>)
AlbumD == Album(<<"D">>, <<"N", "M", " ", "J", "a", "n", "i", "t", "s", "j", "a", "r", " ", "2", "0", "2", "3", " ", "E", "l", "i", "t", "e", "d", "i", "v", "i", "s", "j", "o", "n", " ", "(", "L", "i", "v", "e", ")">>, <<"2", "0", "2", "3">>, <<"a", "l", "b", "u", "m">>)
AlbumNoId == Album(NoneVal, <<"N", "M", " ", "J", "a", "n", "i", "t", "s", "j", "a", "r", " ", "2", "0", "2", "3", " ", "E", "l", "i", "t", "e", "d", "i", "v", "i", "s", "j", "o", "n">>, <<"2", "0", "2", "3", "-", "0", "2", "-", "1", "0">>, <<"a", "l", "b", "u", "m">>)

\* An album of the target year whose track listing is empty.
AlbumE == Album(<<"E">>, <<"N", "M", " ", "J", "a", "n", "i", "t", "s", "j", "a", "r", " ", "2", "0", "2", "3">>, NoneVal, <<"a", "l", "b", "u", "m">>)

\* Albums first..last of a long answer list: distinct ids, the year in the
\* name, no tracks listed.
ManyAlbums(first, last) ==
    [i \in 1..(last - first + 1) |->
         Album(<<"M", ToString(first + i - 1)>>, Str(BuildYear), NoneVal, NoneVal)]

\* spotify.get_album_tracks(album_id)
get_album_tracks(album_id) ==
    CASE album_id = <<"A">> ->
             <<Item(<<"t1">>, Txt_ab, <<"sp:A1">>, <<Txt_ab>>),
               Item(<<"t2">>, Txt_abc, <<"sp:A2">>, <<>>)>>
      [] album_id = <<"B">> ->
             <<Item(<<"t3">>, Txt_ab, <<"sp:B1">>, <<Txt_ab>>),
               Item(<<"t4">>, Txt_d, NoneVal, <<>>)>>
      [] album_id = <<"C">> ->
             <<Item(<<"t9">>, Txt_ab, <<"sp:C1">>, <<Txt_ab>>)>>
      [] album_id = <<"D">> ->
             <<Item(<<"t2">>, Txt_abc, <<"sp:D2">>, <<NoneVal, Txt_ab>>),
               Item(NoneVal, Txt_d, <<"sp:D5">>, <<>>)>>
      [] OTHER -> <<>>

FinderDivision == Txt_Elite
FinderBandType == Txt_wind

SearchTerms == resolve_album_search_terms(BuildYear, FinderDivision, FinderBandType)

Term_Year == YearTerm(Txt_NMJanitsjar, BuildYear)
Term_Base == BaseTerm(Txt_NMJanitsjar, BuildYear, Txt_Elitedivisjon)
Term_Dash == YearTerm(Txt_NMJanitsjar, BuildYear) \o Txt_dash \o Txt_Elitedivisjon
Term_Live == BaseTerm(Txt_NMJanitsjar, BuildYear, Txt_Elite) \o Txt_Live

NoAnswers == [term \in SearchTerms |-> <<>>]

\* spotify.search_albums(term), per term: what the provider answers.
ProviderAnswers ==
    {(Term_Year :> <<AlbumA, AlbumB>>) @@ (Term_Base :> <<AlbumB, AlbumA>>) @@ NoAnswers,
     (Term_Year :> <<AlbumA, AlbumC>>) @@ (Term_Dash :> <<AlbumB>>)
         @@ (Term_Live :> <<AlbumD>>) @@ NoAnswers,
     (Term_Year :> <<AlbumA, AlbumNoId, AlbumC>>) @@ (Term_Base :> <<AlbumA>>)
         @@ NoAnswers,
     NoAnswers}

\* The cache the client starts from: none, an empty one, one holding an
\* empty track list for album A.
CacheFiles ==
    {NoCache,
     [exists |-> TRUE, album_tracks |-> <<>>, dirty |-> FALSE],
     [exists |-> TRUE, album_tracks |-> (<<"A">> :> <<>>), dirty |-> FALSE]}

FinderPerformances ==
    {Performance(BuildYear, FinderDivision, Txt_ab, piece) :
         piece \in {Txt_ab, Txt_abc, Txt_d}}

\* The HTTP status a search or a track listing ends with, where it is not 200.
NoFailure == [searches |-> <<>>, listings |-> <<>>]

StatusOf(statuses, key) == IF key \in DOMAIN statuses THEN statuses[key] ELSE 200

\* spotify.search_albums(term): no album for a term the provider knows nothing of.
AnswerOf(answers, term) == IF term \in DOMAIN answers THEN answers[term] ELSE <<>>

\* SpotifyClient._get: every status from 400 on leaves the call as an
\* exception (a 429 that persists and a 5xx after the retries included).
Raises(status) == status >= 400

\* Override documents for the performance of the piece "ab".
OverrideMismatch ==
    [spotify |-> <<"sp:o9">>, album |-> Alb_2022, allow_album_mismatch |-> TrueVal]
        @@ RawEntry(Str(BuildYear), FinderDivision, Txt_ab, Txt_ab)

OverridePlain ==
    [spotify |-> <<"sp:o9">>, album |-> Alb_2022]
        @@ RawEntry(Str(BuildYear), FinderDivision, Txt_ab, Txt_ab)

OnlyAlbumC == (Term_Year :> <<AlbumC>>) @@ NoAnswers

\* `later` is the division of the performance the finder matches second.
FinderInput(performance, answers, cache, client, failing, overrides) ==
    [performance |-> performance, answers |-> answers, cache |-> cache,
     client |-> client, failing |-> failing, overrides |-> overrides,
     later |-> performance.division]

\* Four searches that return search_albums' limit of five albums each, one
\* album of the third being an album of the first.
CrowdedAnswers ==
    (Term_Year :> ManyAlbums(1, 5)) @@ (Term_Base :> ManyAlbums(6, 10))
        @@ (Term_Dash :> (ManyAlbums(11, 14) \o ManyAlbums(1, 1)))
        @@ (Term_Live :> ManyAlbums(15, 19)) @@ NoAnswers

\* The input whose second performance is of another division.
WithLater(input, division) == [input EXCEPT !.later = division]

FinderInputs ==
    {FinderInput(performance, answers, cache, TRUE, NoFailure, <<>>) :
         performance \in FinderPerformances, answers \in ProviderAnswers,
         cache \in CacheFiles}
    \cup {FinderInput(Performance(BuildYear, FinderDivision, Txt_ab, Txt_ab),
                      OnlyAlbumC, NoCache, TRUE, NoFailure, overrides) :
              overrides \in {<<>>, <<OverrideMismatch>>, <<OverridePlain>>}}
    \cup {FinderInput(Performance(BuildYear, FinderDivision, Txt_ab, Txt_ab),
                      (Term_Year :> <<AlbumA, AlbumB>>) @@ NoAnswers, NoCache, TRUE,
                      failing, <<>>) :
              failing \in {[searches |-> (Term_Base :> 404), listings |-> <<>>],
                           [searches |-> (Term_Live :> 500), listings |-> <<>>],
                           [searches |-> <<>>, listings |-> (<<"B">> :> 429)]}}
    \cup {FinderInput(Performance(BuildYear, FinderDivision, Txt_ab, Txt_ab),
                      (Term_Year :> <<AlbumA>>) @@ NoAnswers, NoCache, FALSE,
                      NoFailure, <<>>)}
    \cup {FinderInput(Performance(BuildYear, FinderDivision, Txt_ab, Txt_ab),
                      CrowdedAnswers, NoCache, TRUE, NoFailure, <<>>)}
    \cup {WithLater(FinderInput(Performance(BuildYear, FinderDivision, Txt_ab, Txt_ab),
                                (Term_Year :> <<AlbumA, AlbumE>>) @@ NoAnswers,
                                cache, TRUE, NoFailure, <<>>),
                    Txt_d) :
              cache \in CacheFiles}

\* How many matches one finder serves.
MaxCalls == 2

NoMemo == [has |-> FALSE, tracks |-> <<>>]
NoCalls == [searches |-> 0, listings |-> 0, listed |-> <<>>]

\* How often the track listing of album_id has been asked of the provider.
TimesListed(calls, album_id) ==
    IF album_id \in DOMAIN calls.listed THEN calls.listed[album_id] ELSE 0

\* One more track listing of album_id.
Listed(calls, album_id) ==
    [searches |-> calls.searches,
     listings |-> calls.listings + 1,
     listed |-> (album_id :> (TimesListed(calls, album_id) + 1)) @@ calls.listed]

\* self._spotify_album_cache.get(key), as [has, tracks]
MemoGet(memo, division) ==
    IF division \in DOMAIN memo THEN [has |-> TRUE, tracks |-> memo[division]]
    ELSE NoMemo

\* self._spotify_album_cache[key] = tracks
MemoPut(memo, division, tracks) == (division :> tracks) @@ memo
NothingSeen == [calls |-> NoCalls, tracks |-> <<>>]

\* Mutant: an empty memoised list counts as no entry.
MemoHit_truthy(memo) == memo.has /\ memo.tracks # <<>>

\* key in self._spotify_album_cache
MemoHit(memo) == memo.has

\* build_year_streaming_entries for the one performance, once match_spotify
\* has returned m on tracks.
EntriesFound(performance, tracks, m, overrides, found) ==
    sort_entries(
        SerialisedMatch(BuildYear, to_dict(performance, RefersTo(tracks, m), <<>>),
                        found)
        \o SerialisedLeftovers(BuildYear,
               remaining_entries(overrides, found.applied, FinderBandType, BuildYear)))

EntriesFor(performance, tracks, m, overrides) ==
    IF m.track = 0
    THEN sort_entries(SerialisedLeftovers(BuildYear,
             remaining_entries(overrides, {}, FinderBandType, BuildYear)))
    ELSE EntriesFound(performance, tracks, m, overrides,
                      lookup(overrides, {}, FinderBandType, performance))

YearEntries(input, tracks) ==
    EntriesFor(input.performance, tracks, MatchIn(input.performance, tracks),
               from_file(input.overrides))

\* The division of the performance match_spotify is called on.
CurrentDivision == IF fCall <= 1 THEN FinderDivision ELSE fInput.later

\* The input with the performance of the current call.
CallInput ==
    [fInput EXCEPT !.performance =
         Performance(BuildYear, CurrentDivision, fInput.performance.band,
                     fInput.performance.piece)]

TermsOf(division) == resolve_album_search_terms(BuildYear, division, FinderBandType)

\* StreamingCache(path) on a file holding album_tracks; no cache object
\* without a path.
LoadedCache(exists, album_tracks) ==
    IF exists THEN [exists |-> TRUE, album_tracks |-> album_tracks, dirty |-> FALSE]
    ELSE NoCache

\* The file after cache.save(): rewritten from the cache when it is dirty.
SavedFile(file, cache) ==
    IF cache.exists /\ cache.dirty THEN cache.album_tracks ELSE file

\* A process starts on the input: a new finder, the cache read from its file.
StartRun(run, input) ==
    /\ fRun' = run
    /\ fPc' = "call"
    /\ fRemaining' = SearchTerms
    /\ fCandidates' = <<>>
    /\ fFiltered' = <<>>
    /\ fIdx' = 0
    /\ fSeenTrackIds' = {}
    /\ fTracks' = <<>>
    /\ fCache' = LoadedCache(input.cache.exists, fFile')
    /\ fFetched' = {}
    /\ fDiscovered' = {}
    /\ fResult' = <<>>
    /\ fMemo' = <<>>
    /\ fCall' = 1
    /\ fCalls' = NoCalls
    /\ fSeen' = NothingSeen

FinderInit ==
    /\ OthersIdle("finder")
    /\ fInput \in FinderInputs
    /\ fRun = 1
    /\ fPc = "call"
    /\ fRemaining = SearchTerms
    /\ fCandidates = <<>>
    /\ fFiltered = <<>>
    /\ fIdx = 0
    /\ fSeenTrackIds = {}
    /\ fTracks = <<>>
    /\ fFile = fInput.cache.album_tracks
    /\ fCache = LoadedCache(fInput.cache.exists, fFile)
    /\ fFetched = {}
    /\ fDiscovered = {}
    /\ fResult = <<>>
    /\ fFirst = <<>>
    /\ fMemo = <<>>
    /\ fCall = 1
    /\ fCalls = NoCalls
    /\ fSeen = NothingSeen

\* match_spotify calls the collector, which has no entry for the key: the
\* search loop is about to draw its first term.
Collect ==
    /\ fPc = "call"
    /\ ~MemoHit(MemoGet(fMemo, CurrentDivision))
    /\ fInput.client
    /\ fPc' = "search"
    /\ fRemaining' = TermsOf(CurrentDivision)
    /\ fCandidates' = <<>>
    /\ fFiltered' = <<>>
    /\ fIdx' = 0
    /\ fSeenTrackIds' = {}
    /\ fTracks' = <<>>
    /\ UNCHANGED <<besideFinder, fInput, fFile, fRun, fCache, fFetched, fDiscovered,
                   fResult, fFirst, fMemo, fCall, fCalls, fSeen>>

\* match_spotify calls the collector, which returns the entry it has for the
\* key; the match is made on that list.
CollectMemoised ==
    /\ fPc = "call"
    /\ MemoHit(MemoGet(fMemo, CurrentDivision))
    /\ fResult' = YearEntries(CallInput, fMemo[CurrentDivision])
    /\ fTracks' = StoreScore(fMemo[CurrentDivision],
                             MatchIn(CallInput.performance, fMemo[CurrentDivision]))
    /\ fMemo' = MemoPut(fMemo, CurrentDivision, fTracks')
    /\ fPc' = "done"
    /\ UNCHANGED <<besideFinder, fInput, fFile, fRun, fRemaining, fCandidates, fFiltered,
                   fIdx, fSeenTrackIds, fCache, fFetched, fDiscovered, fFirst,
                   fCall, fCalls, fSeen>>

\* `if not self.spotify`: an empty list is stored and returned.
CollectNoClient ==
    /\ fPc = "call"
    /\ ~MemoHit(MemoGet(fMemo, CurrentDivision))
    /\ ~fInput.client
    /\ fMemo' = MemoPut(fMemo, CurrentDivision, <<>>)
    /\ fTracks' = <<>>
    /\ fResult' = YearEntries(CallInput, <<>>)
    /\ fPc' = "done"
    /\ UNCHANGED <<besideFinder, fInput, fFile, fRun, fRemaining, fCandidates, fFiltered,
                   fIdx, fSeenTrackIds, fCache, fFetched, fDiscovered, fFirst,
                   fCall, fCalls, fSeen>>

\* One pass of `for term in resolve_album_search_terms(...)`: the next term
\* is whichever the set's iteration yields next.  A search that ends in an
\* exception leaves the collector, match_spotify and the run.
SearchTerm ==
    /\ fPc = "search"
    /\ fRemaining # {}
    /\ Len(fCandidates) < AlbumCap
    /\ \E term \in fRemaining :
           /\ fRemaining' = fRemaining \ {term}
           /\ IF Raises(StatusOf(fInput.failing.searches, term))
              THEN /\ fPc' = "raised"
                   /\ UNCHANGED fCandidates
              ELSE /\ fCandidates' = AppendNew(fCandidates, AnswerOf(fInput.answers, term),
                                               BuildYear, CurrentDivision)
                   /\ UNCHANGED fPc
    /\ fCalls' = [fCalls EXCEPT !.searches = @ + 1]
    /\ UNCHANGED <<besideFinder, fInput, fFile, fRun, fFiltered, fIdx,
                   fSeenTrackIds, fTracks, fCache, fFetched, fDiscovered, fResult,
                   fFirst, fMemo, fCall, fSeen>>

\* After the search loop (terms exhausted, or the cap reached): the sort and
\* the year filter.
FilterAlbums ==
    /\ fPc = "search"
    /\ fRemaining = {} \/ Len(fCandidates) >= AlbumCap
    /\ fFiltered' = filter_albums(sort_candidates(fCandidates), BuildYear)
    /\ fDiscovered' = fDiscovered \cup DiscoveredNames(fFiltered')
    /\ fIdx' = 1
    /\ fPc' = "fetch"
    /\ UNCHANGED <<besideFinder, fInput, fFile, fRun, fRemaining, fCandidates,
                   fSeenTrackIds, fTracks, fCache, fFetched, fResult, fFirst,
                   fMemo, fCall, fCalls, fSeen>>

\* The track items of the album at fIdx: the cached list if the cache has
\* one, else the provider's answer.
TrackItems(album_id) ==
    IF CachedTracks(fCache, album_id) # NoneVal
    THEN CachedTracks(fCache, album_id)
    ELSE get_album_tracks(album_id)

\* One pass of the loop over filtered_albums.  A listing that ends in an
\* exception leaves the collector, match_spotify and the run.
FetchAlbum ==
    /\ fPc = "fetch"
    /\ fIdx <= Len(fFiltered)
    /\ IF fFiltered[fIdx].score < LowScore
       THEN UNCHANGED <<fCache, fFetched, fTracks, fSeenTrackIds, fCalls, fPc>>
       ELSE IF CachedTracks(fCache, fFiltered[fIdx].album.id) = NoneVal
               /\ Raises(StatusOf(fInput.failing.listings, fFiltered[fIdx].album.id))
       THEN /\ fPc' = "raised"
            /\ fFetched' = fFetched \cup {fFiltered[fIdx].album.id}
            /\ fCalls' = Listed(fCalls, fFiltered[fIdx].album.id)
            /\ UNCHANGED <<fCache, fTracks, fSeenTrackIds>>
       ELSE /\ IF CachedTracks(fCache, fFiltered[fIdx].album.id) # NoneVal
               THEN UNCHANGED <<fCache, fFetched, fCalls>>
               ELSE /\ fFetched' = fFetched \cup {fFiltered[fIdx].album.id}
                    /\ fCalls' = Listed(fCalls, fFiltered[fIdx].album.id)
                    /\ fCache' = CacheSet(fCache, fFiltered[fIdx].album.id,
                                          get_album_tracks(fFiltered[fIdx].album.id))
            /\ \E acc \in {CollectItems([tracks |-> fTracks, seen |-> fSeenTrackIds],
                                        TrackItems(fFiltered[fIdx].album.id),
                                        fFiltered[fIdx].album)} :
                   /\ fTracks' = acc.tracks
                   /\ fSeenTrackIds' = acc.seen
            /\ UNCHANGED fPc
    /\ fIdx' = fIdx + 1
    /\ UNCHANGED <<besideFinder, fInput, fFile, fRun, fRemaining, fCandidates,
                   fFiltered, fDiscovered, fResult, fFirst, fMemo, fCall, fSeen>>

\* The track list is memoised and returned to match_spotify, whose result
\* build_year_streaming_entries serialises (no Apple client).
MatchCollected ==
    /\ fPc = "fetch"
    /\ fIdx > Len(fFiltered)
    /\ fResult' = YearEntries(CallInput, fTracks)
    /\ fTracks' = StoreScore(fTracks, MatchIn(CallInput.performance, fTracks))
    /\ fMemo' = MemoPut(fMemo, CurrentDivision, fTracks')
    /\ fPc' = "done"
    /\ UNCHANGED <<besideFinder, fInput, fFile, fRun, fRemaining, fCandidates,
                   fFiltered, fIdx, fSeenTrackIds, fCache, fFetched, fDiscovered,
                   fFirst, fCall, fCalls, fSeen>>

\* A later performance of the year, of the same division or of
\* fInput.later, is matched by the same finder.
NextMatch ==
    /\ fPc = "done"
    /\ fCall < MaxCalls
    /\ fCall' = fCall + 1
    /\ fSeen' = IF fCall = 1 THEN [calls |-> fCalls, tracks |-> fTracks] ELSE fSeen
    /\ fPc' = "call"
    /\ UNCHANGED <<besideFinder, fInput, fFile, fRun, fRemaining, fCandidates,
                   fFiltered, fIdx, fSeenTrackIds, fTracks, fCache, fFetched,
                   fDiscovered, fResult, fFirst, fMemo, fCalls>>

\* The run ends with cache.save(); the program is started again on the same
\* input and the cache file the first run left.
SecondRun ==
    /\ fPc = "done"
    /\ fCall = MaxCalls
    /\ fRun = 1
    /\ fFirst' = fResult
    /\ fFile' = SavedFile(fFile, fCache)
    /\ StartRun(2, fInput)
    /\ UNCHANGED <<besideFinder, fInput>>

FinderNext ==
    \/ Collect \/ CollectMemoised \/ CollectNoClient \/ SearchTerm \/ FilterAlbums
    \/ FetchAlbum \/ MatchCollected \/ NextMatch \/ SecondRun

SpecFinder == FinderInit /\ [][FinderNext]_vars

---------------------------------------------------------------------------
(* SpecRun: generate_streaming_links from the loaded performances to its   *)
(* return: the selection of the target year and what follows from it.      *)

DatasetYears == {2016, 2017, 2018, 2019}
MaxEntries == 2

\* Optional arguments: None, or a value.
NoYear == [given |-> FALSE, value |-> 0]
SomeYear(year) == [given |-> TRUE, value |-> year]
NoYears == [given |-> FALSE, value |-> <<>>]
SomeYears(years) == [given |-> TRUE, value |-> years]

\* The years of load_performances(positions, min_year=min_year): entries
\* whose year is below min_year are not loaded.
LoadedYears(input) == {year \in input.dataset : year >= input.min_year}

\* target_years after the four filters (`if years:` skips None and []).
target_years(input) ==
    {year \in LoadedYears(input) :
         /\ year >= input.min_year
         /\ (input.years.given /\ input.years.value # <<>>) =>
                \E i \in 1..Len(input.years.value) : input.years.value[i] = year
         /\ input.start_year.given => year >= input.start_year.value
         /\ input.end_year.given => year <= input.end_year.value}

\* Mutant: any non-empty selection of years is run.
OneTargetYear_some(years) == years # {}

\* len(target_years) == 1
OneTargetYear(years) == Cardinality(years) = 1

RunInputs ==
    [dataset : SUBSET DatasetYears,
     min_year : {2017, 2018},
     years : {NoYears, SomeYears(<<>>), SomeYears(<<2018>>), SomeYears(<<2019, 2018>>)},
     start_year : {NoYear, SomeYear(2018), SomeYear(2019)},
     end_year : {NoYear, SomeYear(2018)},
     aggregate : BOOLEAN,
     cache : BOOLEAN,
     clients : {{}, {"spotify", "apple_music"}}]

RunInit ==
    /\ OthersIdle("run")
    /\ rInput \in RunInputs
    /\ rPc = "start"
    /\ rTargets = {}
    /\ rMatched = FALSE
    /\ rWritten = {}
    /\ rCombined = FALSE
    /\ rSaved = FALSE
    /\ rReturn = -1
    /\ rDirty = FALSE
    /\ rStored = FALSE
    /\ rCacheFile = "untouched"

\* Mutant: save() writes the file whenever there is a cache.
Saves_always(cache, dirty) == cache

\* StreamingCache.save behind `if cache:` writes the file unless
\* `not self._dirty or not self.path`.
Saves(cache, dirty) == cache /\ dirty

\* `if cache: cache.save()`
SaveCache ==
    /\ rSaved' = rInput.cache
    /\ rCacheFile' = IF Saves(rInput.cache, rDirty) THEN "written" ELSE rCacheFile
    /\ rDirty' = IF Saves(rInput.cache, rDirty) THEN FALSE ELSE rDirty

\* `if not performances`: the aggregate is recombined, the cache saved, 0 returned.
NoPerformances ==
    /\ rPc = "start"
    /\ LoadedYears(rInput) = {}
    /\ rCombined' = rInput.aggregate
    /\ SaveCache
    /\ rReturn' = 0
    /\ rPc' = "returned"
    /\ UNCHANGED <<besideRun, rInput, rTargets, rMatched, rWritten, rStored>>

\* The finder is built and the target years are selected.
SelectYears ==
    /\ rPc = "start"
    /\ LoadedYears(rInput) # {}
    /\ rTargets' = target_years(rInput)
    /\ rPc' = "selected"
    /\ UNCHANGED <<besideRun, rInput, rMatched, rWritten, rCombined, rSaved, rReturn,
                   rDirty, rStored, rCacheFile>>

\* `if not target_years`
NoTargetYear ==
    /\ rPc = "selected"
    /\ rTargets = {}
    /\ SaveCache
    /\ rReturn' = 0
    /\ rPc' = "returned"
    /\ UNCHANGED <<besideRun, rInput, rTargets, rMatched, rWritten, rCombined,
                   rStored>>

\* `if len(target_years) != 1`
SeveralTargetYears ==
    /\ rPc = "selected"
    /\ rTargets # {}
    /\ ~OneTargetYear(rTargets)
    /\ SaveCache
    /\ rReturn' = 0
    /\ rPc' = "returned"
    /\ UNCHANGED <<besideRun, rInput, rTargets, rMatched, rWritten, rCombined,
                   rStored>>

\* The loop over sorted(year_map): build_year_streaming_entries and
\* write_year_file for every target year; the entries built are counted.
\* With a cache and a client, the collectors may have stored a fetched
\* track list.
RunYears ==
    /\ rPc = "selected"
    /\ OneTargetYear(rTargets)
    /\ rMatched' = TRUE
    /\ rWritten' = rTargets
    /\ \E total_entries \in 0..MaxEntries : rReturn' = total_entries
    /\ \E stored \in (IF rInput.cache /\ rInput.clients # {} THEN BOOLEAN ELSE {FALSE}) :
           /\ rStored' = stored
           /\ rDirty' = stored
    /\ rPc' = "written"
    /\ UNCHANGED <<besideRun, rInput, rTargets, rCombined, rSaved, rCacheFile>>

\* After the loop: combine_year_files if an aggregate is given, cache.save().
FinishRun ==
    /\ rPc = "written"
    /\ rCombined' = rInput.aggregate
    /\ SaveCache
    /\ rPc' = "returned"
    /\ UNCHANGED <<besideRun, rInput, rTargets, rMatched, rWritten, rReturn, rStored>>

RunNext ==
    NoPerformances \/ SelectYears \/ NoTargetYear \/ SeveralTargetYears \/ RunYears
    \/ FinishRun

SpecRun == RunInit /\ [][RunNext]_vars

---------------------------------------------------------------------------

(* SpecNormalize: normalize_title applied to a title and then to its own   *)
(* result.                                                                 *)

MaxTitleLen == 3

\* Letters of both cases, a digit, a precomposed letter, a typographic
\* apostrophe and dash, and the separators and parentheses of titles.
TitleChars == {"A", "b", "1", "e_acute", "rsquo", "endash", " ", "-", "(", ")"}

Titles == SeqUpTo(TitleChars, MaxTitleLen)

NormalizeInit ==
    /\ OthersIdle("text")
    /\ tX \in Titles
    /\ tY = <<>>
    /\ tRemove \in BOOLEAN
    /\ tOut = <<>>

\* normalize_title(value, remove_parentheticals=tRemove), first on the title,
\* then on what the call before returned.
NormalizeCall ==
    /\ Len(tOut) < 2
    /\ tOut' = Append(tOut, normalize_title(IF tOut = <<>> THEN tX ELSE tOut[Len(tOut)],
                                            tRemove))
    /\ UNCHANGED <<besideText, tX, tY, tRemove>>

NormalizeNext == NormalizeCall

SpecNormalize == NormalizeInit /\ [][NormalizeNext]_vars

---------------------------------------------------------------------------

(* SpecSimilarity: similarity_score applied to a pair of slugs in both     *)
(* argument orders.                                                        *)

MaxSlugLen == 3

\* Slugs are results of normalize_title: tokens joined by "-", or empty.
Slugs == {slug \in SeqUpTo({"a", "b", "-"}, MaxSlugLen) : normalize_title(slug, TRUE) = slug}

SimilarityInit ==
    /\ OthersIdle("text")
    /\ tX \in Slugs
    /\ tY \in Slugs
    /\ tRemove = FALSE
    /\ tOut = <<>>

\* similarity_score(tX, tY), then similarity_score(tY, tX).
SimilarityCall ==
    /\ Len(tOut) < 2
    /\ tOut' = Append(tOut, IF tOut = <<>> THEN similarity_score(tX, tY)
                            ELSE similarity_score(tY, tX))
    /\ UNCHANGED <<besideText, tX, tY, tRemove>>

SimilarityNext == SimilarityCall

SpecSimilarity == SimilarityInit /\ [][SimilarityNext]_vars

---------------------------------------------------------------------------

(* SpecScore: score_album_relevance applied to two albums for the same     *)
(* target year and division.                                               *)

\* Album names: a contest or other prefix, a year, a division or none, and
\* a live marker or none.
AlbumNames ==
    {prefix \o year \o division \o live :
         prefix \in {Txt_NMJanitsjar, <<"K", "o", "r", "p", "s">>},
         year \in {<<" ">> \o Str(BuildYear), <<" ">> \o Str(OtherYear)},
         division \in {<<>>, <<" ">> \o Txt_Elitedivisjon, <<" ">> \o Txt_Div1},
         live \in {<<>>, Txt_Live}}

ReleaseDates == {NoneVal, <<"2", "0", "2", "3", "-", "0", "2", "-", "1", "0">>, <<"2", "0", "2", "2", "-", "0", "2", "-", "1", "1">>}

AlbumTypes == {NoneVal, <<"a", "l", "b", "u", "m">>, <<"s", "i", "n", "g", "l", "e">>}

ScoredAlbums ==
    {Album(<<"X">>, name, release_date, album_type) :
         name \in AlbumNames, release_date \in ReleaseDates, album_type \in AlbumTypes}

ScoreInit ==
    /\ OthersIdle("score")
    /\ sDivision \in {Txt_Elite, Txt_Div1}
    /\ sAlbums \in ScoredAlbums \X ScoredAlbums
    /\ sScores = <<>>

\* score_album_relevance(album, year, division) for both albums.
ScoreAlbums ==
    /\ sScores = <<>>
    /\ sScores' = <<score_album_relevance(sAlbums[1], BuildYear, sDivision),
                    score_album_relevance(sAlbums[2], BuildYear, sDivision)>>
    /\ UNCHANGED <<besideScore, sDivision, sAlbums>>

ScoreNext == ScoreAlbums

SpecScore == ScoreInit /\ [][ScoreNext]_vars

---------------------------------------------------------------------------

(* SpecLoad: StreamingOverrideResolver.from_file on an override document,   *)
(* then the lookups and remaining_entries of a run on what was loaded.     *)

MaxDocEntries == 2

\* A year that is not a number.
UnusableYear == <<"2", "0", "x", "3">>

\* The entries an override document is made of: two entries of the same
\* performance restricted to wind and to brass, an unrestricted one, one
\* without a band, one with an unusable year.
LoadEntries ==
    {[spotify |-> <<"sp:w">>, album |-> Alb_2023, band_type |-> Txt_wind]
         @@ RawEntry(Str(BuildYear), Txt_Elite, Txt_ab, Txt_ab),
     [spotify |-> <<"sp:b">>, album |-> Alb_2023, band_type |-> Txt_Brass]
         @@ RawEntry(Str(BuildYear), Txt_Elite, Txt_ab, Txt_ab),
     [apple_music |-> <<"ap:u">>, album |-> Alb_2023]
         @@ RawEntry(Str(BuildYear), Txt_Elite, Txt_ab, Txt_abc),
     [spotify |-> <<"sp:n">>, album |-> Alb_2023]
         @@ RawEntry(Str(BuildYear), Txt_Elite, Absent, Txt_d),
     [spotify |-> <<"sp:x">>, album |-> Alb_2023]
         @@ RawEntry(UnusableYear, Txt_Elite, Txt_ab, Txt_d)}

\* The documents: no file, a file that is not JSON, a JSON scalar, an object
\* whose "overrides" is null, a list of entries, an object holding one.
Documents ==
    {[kind |-> kind, entries |-> <<>>] :
         kind \in {"missing", "unparsable", "scalar", "null_overrides"}}
    \cup {[kind |-> kind, entries |-> entries] :
              kind \in {"list", "object"},
              entries \in SeqUpTo(LoadEntries, MaxDocEntries)}

LoadPerformances ==
    {Performance(BuildYear, Txt_Elite, Txt_ab, piece) : piece \in {Txt_ab, Txt_abc}}

\* int(year) succeeds on the text
IsInt(text) ==
    /\ text # <<>>
    /\ \A i \in 1..Len(text) : \E d \in 1..Len(DigitChars) : DigitChars[d] = text[i]

\* `year is None or division_slug is None or band_slug is None or
\* piece_slug is None`
MissingKey(entry) ==
    \/ Get(entry, "year") = NoneVal
    \/ Or(Get(entry, "division_slug"), make_lookup_slug(Get(entry, "division"))) = NoneVal
    \/ Or(Get(entry, "band_slug"), make_lookup_slug(Get(entry, "band"))) = NoneVal
    \/ Or(Or(Get(entry, "piece_slug"), Get(entry, "result_piece_slug")),
          make_lookup_slug(Or(Get(entry, "piece"), Get(entry, "result_piece")))) = NoneVal

\* The pass of from_file's loop over the entry ends in the exception of
\* int(year).
EntryRaises(entry) == ~MissingKey(entry) /\ ~IsInt(Get(entry, "year"))

LoadInit ==
    /\ OthersIdle("load")
    /\ lDoc \in Documents
    /\ lBandType \in {Txt_wind, Txt_brass}
    /\ lPc = "load"
    /\ lIdx = 0
    /\ lOverrides = <<>>
    /\ lApplied = {}
    /\ lFound = <<>>
    /\ lRemaining = <<>>

\* from_file up to its loop: the file is read and parsed and raw_entries is
\* taken from the payload.
ReadDocument ==
    /\ lPc = "load"
    /\ lIdx = 0
    /\ IF lDoc.kind = "null_overrides"
       THEN lPc' = "raised" /\ UNCHANGED lIdx
       ELSE lIdx' = 1 /\ UNCHANGED lPc
    /\ UNCHANGED <<besideLoad, lDoc, lBandType, lOverrides, lApplied, lFound,
                   lRemaining>>

\* One pass of from_file's loop over raw_entries.
LoadNext ==
    /\ lPc = "load"
    /\ lIdx >= 1
    /\ lIdx <= Len(lDoc.entries)
    /\ IF EntryRaises(lDoc.entries[lIdx])
       THEN lPc' = "raised" /\ UNCHANGED lOverrides
       ELSE /\ lOverrides' = LoadEntry(lOverrides, lDoc.entries[lIdx])
            /\ UNCHANGED lPc
    /\ lIdx' = lIdx + 1
    /\ UNCHANGED <<besideLoad, lDoc, lBandType, lApplied, lFound, lRemaining>>

\* from_file returns the resolver.
Loaded ==
    /\ lPc = "load"
    /\ lIdx > Len(lDoc.entries)
    /\ lPc' = "lookup"
    /\ UNCHANGED <<besideLoad, lDoc, lBandType, lIdx, lOverrides, lApplied, lFound,
                   lRemaining>>

\* lookup(performance) for a performance of the run.
Lookup ==
    /\ lPc = "lookup"
    /\ \E performance \in LoadPerformances :
           /\ \A i \in 1..Len(lFound) : lFound[i].performance # performance
           /\ lFound' = Append(lFound,
                  [performance |-> performance,
                   found |-> lookup(lOverrides, lApplied, lBandType, performance)])
    /\ lApplied' = lFound'[Len(lFound')].found.applied
    /\ UNCHANGED <<besideLoad, lDoc, lBandType, lPc, lIdx, lOverrides, lRemaining>>

\* remaining_entries(year=year) once every performance has been looked up.
ListRemaining ==
    /\ lPc = "lookup"
    /\ Len(lFound) = Cardinality(LoadPerformances)
    /\ lRemaining' = remaining_entries(lOverrides, lApplied, lBandType, BuildYear)
    /\ lPc' = "done"
    /\ UNCHANGED <<besideLoad, lDoc, lBandType, lIdx, lOverrides, lApplied, lFound>>

LoadNextStep == ReadDocument \/ LoadNext \/ Loaded \/ Lookup \/ ListRemaining

SpecLoad == LoadInit /\ [][LoadNextStep]_vars

---------------------------------------------------------------------------

(* SpecShare: two runs on one cache file.  Each run loads the file when it *)
(* builds its StreamingCache, stores the track lists it fetches, and saves *)
(* at its end.                                                             *)

SharingRuns == {1, 2}

SharedAlbumIds == {"A", "B"}

NoCacheFile == [kind |-> "missing", albums |-> <<>>]

CacheDocument(albums) == [kind |-> "document", albums |-> albums]

\* write_text has opened the file for writing and not yet written all of it.
PartialFile == [kind |-> "partial", albums |-> <<>>]

\* The file the runs find: none, an empty cache, a cache an earlier run
\* (run 0) left with album A.
SharedFiles == {NoCacheFile, CacheDocument(<<>>), CacheDocument("A" :> 0)}

\* StreamingCache.__init__: the album entries of the file; none without a
\* file or when json.loads fails.
LoadedFrom(file) == IF file.kind = "document" THEN file.albums ELSE <<>>

ShareInit ==
    /\ OthersIdle("share")
    /\ xFile \in SharedFiles
    /\ xPc = [r \in SharingRuns |-> "start"]
    /\ xData = [r \in SharingRuns |-> <<>>]
    /\ xDirty = [r \in SharingRuns |-> FALSE]
    /\ xStored = [r \in SharingRuns |-> {}]
    /\ xWriters = <<>>

\* StreamingCache(cache_path)
LoadCache(r) ==
    /\ xPc[r] = "start"
    /\ xData' = [xData EXCEPT ![r] = LoadedFrom(xFile)]
    /\ xPc' = [xPc EXCEPT ![r] = "loaded"]
    /\ UNCHANGED <<besideShare, xFile, xDirty, xStored, xWriters>>

\* set_spotify_album_tracks(album_id, tracks) after a miss
StoreTracks(r) ==
    /\ xPc[r] = "loaded"
    /\ \E album_id \in SharedAlbumIds \ DOMAIN xData[r] :
           /\ xData' = [xData EXCEPT ![r] = (album_id :> r) @@ @]
           /\ xStored' = [xStored EXCEPT ![r] = @ \cup {album_id}]
    /\ xDirty' = [xDirty EXCEPT ![r] = TRUE]
    /\ UNCHANGED <<besideShare, xFile, xPc, xWriters>>

\* save(): nothing when the cache is clean; else write_text opens the file,
\* which truncates it.
BeginSave(r) ==
    /\ xPc[r] = "loaded"
    /\ IF xDirty[r]
       THEN /\ xFile' = PartialFile
            /\ xPc' = [xPc EXCEPT ![r] = "writing"]
       ELSE /\ xPc' = [xPc EXCEPT ![r] = "done"]
            /\ UNCHANGED xFile
    /\ UNCHANGED <<besideShare, xData, xDirty, xStored, xWriters>>

\* write_text has written json.dumps(self._data) and closed the file.
EndSave(r) ==
    /\ xPc[r] = "writing"
    /\ xFile' = CacheDocument(xData[r])
    /\ xDirty' = [xDirty EXCEPT ![r] = FALSE]
    /\ xPc' = [xPc EXCEPT ![r] = "done"]
    /\ xWriters' = Append(xWriters, r)
    /\ UNCHANGED <<besideShare, xData, xStored>>

ShareNext ==
    \E r \in SharingRuns : LoadCache(r) \/ StoreTracks(r) \/ BeginSave(r) \/ EndSave(r)

SpecShare == ShareInit /\ [][ShareNext]_vars

---------------------------------------------------------------------------

(* Claims about the matcher (SpecMatch).                                   *)

PieceScoreOf(i) ==
    piece_match_score(Normalized(mPerf.piece, TRUE), mTracks[i].slug_variants)

BandScoreOf(i) == band_match_score(Normalized(mPerf.band, TRUE), mTracks[i])

\* C1: match_spotify and match_apple return None or a track of the list whose
\* combined score is at least 0.65 (13/20), and they return None whenever no
\* track of the list has a combined score of at least 0.65.
C1_NoTrackBelowThreshold ==
    mPc # "input" =>
        /\ mResult.track # 0 =>
               /\ mResult.track \in 1..Len(mTracks)
               /\ 20 * mCombined[mResult.track][1] >= 13 * mCombined[mResult.track][2]
               /\ FracEq(mResult.score, mCombined[mResult.track])
        /\ (\A i \in 1..Len(mCombined) : 20 * mCombined[i][1] < 13 * mCombined[i][2])
               => mResult.track = 0

\* A call that returned a track scoring in [0.65, 0.7) while another track of
\* the list scored below the threshold without scoring zero.
C1_Witness ==
    /\ mPc # "input"
    /\ mResult.track # 0
    /\ 10 * mResult.score[1] < 7 * mResult.score[2]
    /\ \E i \in 1..Len(mCombined) :
           /\ mCombined[i][1] > 0
           /\ 20 * mCombined[i][1] < 13 * mCombined[i][2]

\* C2: the combined score of every track is 0.6 p + 0.4 b when b > 0.7,
\* 0.8 p + 0.2 b when 0.4 < b <= 0.7 and p otherwise, with p the piece score
\* and b the band score; b is 0 when the track has no artist or the band slug
\* is empty; and a track whose artist slug equals the (non-empty) band slug
\* with p = 0.5 has a combined score strictly above 0.5.
C2_CombinedBlend ==
    mPc # "input" =>
        \A i \in 1..Len(mTracks) :
            LET p == PieceScoreOf(i)
                b == BandScoreOf(i)
                c == mCombined[i]
                band_slug == Normalized(mPerf.band, TRUE)
                artist_slug == Normalized(mTracks[i].artist, TRUE)
            IN /\ (mTracks[i].artist = <<>> \/ band_slug = <<>>) => b[1] = 0
               /\ 10 * b[1] > 7 * b[2] =>
                      10 * c[1] * p[2] * b[2] = c[2] * (6 * p[1] * b[2] + 4 * b[1] * p[2])
               /\ (10 * b[1] > 4 * b[2] /\ 10 * b[1] <= 7 * b[2]) =>
                      10 * c[1] * p[2] * b[2] = c[2] * (8 * p[1] * b[2] + 2 * b[1] * p[2])
               /\ 10 * b[1] <= 4 * b[2] => c[1] * p[2] = p[1] * c[2]
               /\ (artist_slug = band_slug /\ band_slug # <<>> /\ 2 * p[1] = p[2])
                      => 2 * c[1] > c[2]

\* A call on a list holding a track by the performing band (artist slug equal
\* to the band slug) whose piece score is exactly 0.5, and a track with a
\* moderate band score.
C2_Witness ==
    /\ mPc # "input"
    /\ \E i \in 1..Len(mTracks) :
           /\ Normalized(mTracks[i].artist, TRUE) = Normalized(mPerf.band, TRUE)
           /\ Normalized(mPerf.band, TRUE) # <<>>
           /\ 2 * PieceScoreOf(i)[1] = PieceScoreOf(i)[2]
           /\ 2 * mCombined[i][1] > mCombined[i][2]
    /\ \E j \in 1..Len(mTracks) :
           /\ 10 * BandScoreOf(j)[1] > 4 * BandScoreOf(j)[2]
           /\ 10 * BandScoreOf(j)[1] <= 7 * BandScoreOf(j)[2]

\* C20: the track match_spotify / match_apple return has the highest combined
\* score of the list, and every track before it in the list scores strictly
\* less: of several tracks with the highest score the first one is returned.
C20_FirstHighestReturned ==
    (mPc # "input" /\ mResult.track # 0) =>
        /\ \A i \in 1..Len(mCombined) : FracLe(mCombined[i], mCombined[mResult.track])
        /\ \A i \in 1..(mResult.track - 1) :
               FracLt(mCombined[i], mCombined[mResult.track])

\* A call on two tracks that tie for the highest score, which returned the first.
C20_Witness ==
    /\ mPc # "input"
    /\ Len(mTracks) = 2
    /\ mResult.track = 1
    /\ FracEq(mCombined[1], mCombined[2])
    /\ mTracks[1].url # mTracks[2].url

\* The piece score of the track at position i of mTracks.
PieceScore(i) ==
    piece_match_score(Normalized(mPerf.piece, TRUE), mTracks[i].slug_variants)

\* C27: a track whose piece score alone reaches 0.65 has a combined score of
\* at least 0.65, whatever its band score.
C27_ArtistDoesNotReject ==
    mPc # "input" =>
        \A i \in 1..Len(mTracks) :
            FracLe(MatchThreshold, PieceScore(i)) => FracLe(MatchThreshold, mCombined[i])

---------------------------------------------------------------------------
(* Claims about build_year_streaming_entries and combine_year_files        *)
(* (SpecBuild).                                                            *)

\* The override entries remaining_entries reports in the current state.
Remaining == remaining_entries(bOverrides, bApplied, bBandType, BuildYear)

Unconsumed(entry) ==
    /\ entry.meta.year = BuildYear
    /\ entry.meta.band_type \in {NoneVal, bBandType}
    /\ \A i \in 1..Len(bLog) : ~(bLog[i].hit /\ bLog[i].key = entry.key)
    /\ \/ entry.fields["spotify"] \notin {Absent, NoneVal, <<>>}
       \/ entry.fields["apple_music"] \notin {Absent, NoneVal, <<>>}
    /\ \/ /\ entry.fields["album"] \notin {Absent, NoneVal}
          /\ Contains(entry.fields["album"], Str(BuildYear))
       \/ entry.fields["allow_album_mismatch"] = TrueVal

CarriesLinksOf(record, entry) ==
    /\ record.year = BuildYear
    /\ record.division = entry.meta.division
    /\ record.band = entry.meta.band
    /\ record.spotify = Get(entry.fields, "spotify")
    /\ record.apple_music = Get(entry.fields, "apple_music")
    /\ record.album = Get(entry.fields, "album")

\* C4: when build_year_streaming_entries returns, every override entry of the
\* year and band type that no lookup consumed, that has a provider URL and
\* whose album names the year (or that allows a mismatch) is a record of the
\* output.
C4_LeftoversEmitted ==
    bPc = "built" =>
        \A k \in 1..Len(bOverrides) :
            Unconsumed(bOverrides[k]) =>
                \E r \in 1..Len(bEntries) : CarriesLinksOf(bEntries[r], bOverrides[k])

\* A leftover of a performance that was in the dataset and found no match.
C4_Witness ==
    /\ bPc = "built"
    /\ \E k \in 1..Len(bOverrides) :
           /\ Unconsumed(bOverrides[k])
           /\ \E i \in 1..Len(bPerfs) :
                  /\ PerformanceKey(bPerfs[i]) = bOverrides[k].key
                  /\ ~bLog[i].looked

\* The output fields an override may name.
OverridableFields ==
    {"recording_title", "album", "spotify", "apple_music", "result_piece",
     "alternate_result_piece_slugs", "notes"}

\* C5 as stated: the record emitted for the key of a performance carries the
\* override's value in every field the override names.
C5_OverridesTakePrecedence ==
    bPc = "built" =>
        \A i \in 1..Len(bPerfs) : \A k \in 1..Len(bOverrides) :
            (/\ bOverrides[k].key = PerformanceKey(bPerfs[i])
             /\ bOverrides[k].meta.band_type \in {NoneVal, bBandType})
                => \A r \in 1..Len(bSerialised) :
                       bOrigins[r].key = bOverrides[k].key
                           => \A f \in OverridableFields :
                                  bOverrides[k].fields[f] # Absent
                                      => bSerialised[r][f] = bOverrides[k].fields[f]

\* The Track whose title and album to_dict serialises for the match at i.
SerialisedTrack(i) ==
    (RefersTo(bMemo.spotify[bMatches[i].performance.division], bMatches[i].spotify)
     \o RefersTo(bMemo.apple_music[bMatches[i].performance.division],
                 bMatches[i].apple_music))[1]

\* C6 as stated: the record of a matched performance without an override is
\* kept exactly when its album is of the target year, by release year or by
\* the year in its name.
C6_KeptIfAlbumOfTargetYear ==
    \A i \in 1..Len(bLog) :
        (bLog[i].looked /\ ~bLog[i].hit)
            => (bLog[i].kept <=>
                    \/ ReleaseYear(SerialisedTrack(i).album_id) = BuildYear
                    \/ Contains(SerialisedTrack(i).album, Str(BuildYear)))

\* An enabled provider lists a track that the performance at i reaches the
\* threshold on.
Matched(i) ==
    \E platform \in bClients :
        \E t \in 1..Len(bMemo[platform][bPerfs[i].division]) :
            FracLe(MatchThreshold,
                   TrackCombined(bPerfs[i], bMemo[platform][bPerfs[i].division][t]))

\* C7: every record of the output stems from a performance with an accepted
\* match or from an override entry, and a performance without a match and
\* without an override for its key has no record.
C7_RecordsFromMatchesOrOverrides ==
    bPc = "built" =>
        /\ Len(bEntries) = Len(bSerialised)
        /\ \A r \in 1..Len(bEntries) :
               \E k \in 1..Len(bSerialised) :
                   /\ bSerialised[k] = bEntries[r]
                   /\ bOrigins[k].kind = "match" => Matched(bOrigins[k].perf)
                   /\ bOrigins[k].kind = "override" => HasKey(bOverrides, bOrigins[k].key)
        /\ \A i \in 1..Len(bPerfs) :
               (~Matched(i) /\ ~HasKey(bOverrides, PerformanceKey(bPerfs[i])))
                   => \A k \in 1..Len(bOrigins) :
                          bOrigins[k].key # PerformanceKey(bPerfs[i])

\* One performance gave a record, another had neither match nor override.
C7_Witness ==
    /\ bPc = "built"
    /\ \E k \in 1..Len(bOrigins) : bOrigins[k].kind = "match"
    /\ \E i \in 1..Len(bPerfs) :
           ~Matched(i) /\ ~HasKey(bOverrides, PerformanceKey(bPerfs[i]))

Sorted(entries) ==
    \A i \in 1..(Len(entries) - 1) :
        ~KeyLt(SortKey(entries[i + 1]), SortKey(entries[i]))

\* C8: the list build_year_streaming_entries returns and the list
\* combine_year_files writes for its band type are in non-decreasing order of
\* (year, division, band, result_piece).
C8_OutputsSorted ==
    /\ bPc = "built" => Sorted(bEntries)
    /\ bPc = "combined" => Sorted(Section(bAggregate, bBandType))

\* The final sort had to move a record that an override supplied.
C8_Witness ==
    /\ bPc = "built"
    /\ bEntries # bSerialised
    /\ \E k \in 1..Len(bOrigins) : bOrigins[k].kind = "override"

Count(entries, e) == Cardinality({i \in 1..Len(entries) : entries[i] = e})

\* The entries of the year files that are present and parse.
PresentEntries == ConcatYears(bYearFiles, DOMAIN bYearFiles)

\* C10: after combine_year_files the band type's section holds exactly the
\* entries of the year files present, sorted, whatever the aggregate held
\* before; combining again without a change to the files changes nothing.
C10_CombineRecomputes ==
    bPc = "combined" =>
        /\ Sorted(Section(bAggregate, bBandType))
        /\ Len(Section(bAggregate, bBandType)) = Len(PresentEntries)
        /\ \A i \in 1..Len(PresentEntries) :
               Count(Section(bAggregate, bBandType), PresentEntries[i])
                   = Count(PresentEntries, PresentEntries[i])
        /\ bRepeat => bAggregate = bBefore

\* A stale section was replaced, with year files of both years present.
C10_Witness ==
    /\ bPc = "combined"
    /\ bBefore.kind = "object"
    /\ Section(bBefore, bBandType) # <<>>
    /\ Section(bBefore, bBandType) # Section(bAggregate, bBandType)
    /\ bYearFiles[OtherYear].kind = "array"
    /\ bYearFiles[BuildYear].entries # <<>>

\* The band_type the run does not work on.
OtherSection == IF bBandType = Txt_wind THEN "brass" ELSE "wind"

\* C25: combine_year_files writes the sections of the other band_type the
\* aggregate file held back unchanged, keeps the file's other top-level keys,
\* and the aggregate it writes has both the keys wind and brass.
C25_OtherSectionKept ==
    bPc = "combined" =>
        /\ {"wind", "brass"} \subseteq bAggregate.keys
        /\ bBefore.kind = "object" =>
               /\ bBefore.keys \subseteq bAggregate.keys
               /\ OtherSection \in bBefore.keys =>
                      bAggregate[OtherSection] = bBefore[OtherSection]

C25_Witness ==
    /\ bPc = "combined"
    /\ bBefore.kind = "object"
    /\ OtherSection \in bBefore.keys
    /\ bBefore[OtherSection] # <<>>
    /\ bAggregate[OtherSection] = bBefore[OtherSection]
    /\ Section(bAggregate, bBandType) # Section(bBefore, bBandType)

\* C29: lookup is called only for performances with a match and before
\* remaining_entries is read; an override that a lookup returned gives no
\* leftover record, and no override entry gives two leftover records.
C29_LookupsBeforeLeftovers ==
    /\ \A i \in 1..Len(bLog) : bLog[i].looked <=> Matched(bLog[i].perf)
    /\ bPc \in {"match", "serialise", "leftover"} =>
           \A k \in 1..Len(bOrigins) : bOrigins[k].kind = "match"
    /\ \A k \in 1..Len(bOrigins) :
           bOrigins[k].kind = "override" =>
               /\ \A i \in 1..Len(bLog) : ~(bLog[i].hit /\ bLog[i].key = bOrigins[k].key)
               /\ \A l \in 1..Len(bOrigins) :
                      (l # k /\ bOrigins[l].kind = "override")
                          => bOrigins[l].key # bOrigins[k].key

C29_Witness ==
    /\ bPc = "built"
    /\ \E i \in 1..Len(bLog) : bLog[i].hit
    /\ \E i \in 1..Len(bLog) : ~bLog[i].looked
    /\ \E k \in 1..Len(bOrigins) : bOrigins[k].kind = "override"

---------------------------------------------------------------------------
(* Claims about the collector (SpecFinder).                                *)

\* C9: two runs on the same performances, overrides, cache and provider
\* answers produce the same records: whenever the second run has finished,
\* its records equal the records of the first run, whatever order the search
\* terms were drawn in and whatever order the albums were discovered in.
C9_RunsAgree ==
    (fRun = 2 /\ fPc = "done") => fResult = fFirst

\* C15: once a finder has collected the tracks of a (year, division), a later
\* match of the same key issues no provider search and no track listing and
\* is made on the same track list, an empty one included.
C15_MemoisedCollection ==
    (fCall >= 2 /\ fInput.later = FinderDivision) =>
        /\ fPc \in {"call", "done"}
        /\ fCalls = fSeen.calls
        /\ fTracks = fSeen.tracks

C15_Witness ==
    /\ fCall = 2
    /\ fInput.later = FinderDivision
    /\ fPc = "done"
    /\ fInput.client
    /\ fSeen.calls.searches > 0
    /\ fTracks = <<>>

\* The album is of the target year: by release year or by the year in its name.
IsOfYear(album) ==
    \/ (album.release_date # NoneVal
        /\ SubSeq(album.release_date, 1, 4) = Str(BuildYear))
    \/ Contains(album.name, Str(BuildYear))

\* The albums the provider's searches return.
AnsweredAlbums ==
    UNION {{fInput.answers[term][i] : i \in 1..Len(fInput.answers[term])} :
               term \in SearchTerms}

\* C16: every collected track comes from an album of the target year (by
\* release year or by the year in its name); when the searches return only
\* albums of another year the performance has no match and the year has no
\* record, unless an override with allow_album_mismatch supplies one.
C16_YearGate ==
    /\ \A i \in 1..Len(fTracks) :
           \E album \in AnsweredAlbums :
               album.id = fTracks[i].album_id /\ IsOfYear(album)
    /\ (/\ fPc = "done"
        /\ AnsweredAlbums # {}
        /\ \A album \in AnsweredAlbums : ~IsOfYear(album))
           => /\ fTracks = <<>>
              /\ IF fInput.overrides = <<OverrideMismatch>>
                 THEN /\ Len(fResult) = 1
                      /\ fResult[1].result_piece = fInput.performance.piece
                      /\ fResult[1].spotify = <<"sp:o9">>
                      /\ fResult[1].album = Alb_2022
                 ELSE fResult = <<>>

C16_Witness ==
    /\ fPc = "done"
    /\ fInput.answers = OnlyAlbumC
    /\ fInput.overrides = <<OverrideMismatch>>
    /\ fCalls.searches > 0
    /\ fResult # <<>>

\* C17: a provider search or track listing that ends in an error does not
\* abort the run: no exception leaves the collector.
C17_ErrorsDoNotAbort == fPc # "raised"

\* The (division, term) pairs of the divisions this finder has collected or
\* is collecting.
GeneratedVariants ==
    UNION {{<<division, term>> : term \in TermsOf(division)} :
               division \in DOMAIN fMemo \cup {CurrentDivision}}

\* C26: the search of one collect is bounded by the cap: the candidate list
\* never holds more albums than the cap, and the searches sent for the
\* (year, division) pairs of the finder never exceed the generated variants.
C26_SearchBounded ==
    /\ Len(fCandidates) <= AlbumCap
    /\ fCalls.searches <= Cardinality(GeneratedVariants)

\* C22: the album cache is read before any fetch and filled after a miss: a
\* step lists the tracks of an album id only when the cache has no entry for
\* it, the list a miss fetched is stored under that id when there is a cache,
\* and in a run with a cache no album id is listed more than once, also when
\* the album is a candidate for two divisions.
C22_CacheBeforeFetch ==
    /\ [][\A album_id \in DOMAIN fCalls'.listed :
              TimesListed(fCalls', album_id) > TimesListed(fCalls, album_id) =>
                  /\ CachedTracks(fCache, album_id) = NoneVal
                  /\ (fCache.exists /\ fPc' # "raised") =>
                         CachedTracks(fCache', album_id) = get_album_tracks(album_id)]_vars
    /\ [](fCache.exists =>
              \A album_id \in DOMAIN fCalls.listed : TimesListed(fCalls, album_id) <= 1)

\* A finder with a cache has collected two divisions; album A was a
\* candidate for both and was listed once.
C22_Witness ==
    /\ fPc = "done"
    /\ fCache.exists
    /\ DOMAIN fMemo = {FinderDivision, Txt_d}
    /\ fCalls.searches > Cardinality(TermsOf(FinderDivision))
    /\ TimesListed(fCalls, <<"A">>) = 1
    /\ \A division \in DOMAIN fMemo :
           \E i \in 1..Len(fMemo[division]) : fMemo[division][i].album_id = <<"A">>

\* The album ids whose stored track list is empty.
EmptyIn(album_tracks) ==
    {album_id \in DOMAIN album_tracks : album_tracks[album_id] = <<>>}

\* C30: an empty track list a listing returned is stored like any other and
\* marks the cache dirty; the run's save and the next run's load keep it;
\* and an album id with an empty stored list is never listed again, in the
\* run that stored it or in a run that loaded it from the file, and gives no
\* track.
C30_EmptyListCached ==
    /\ [][\A album_id \in DOMAIN fCalls'.listed :
              (/\ TimesListed(fCalls', album_id) > TimesListed(fCalls, album_id)
               /\ fCache.exists
               /\ fPc' # "raised"
               /\ get_album_tracks(album_id) = <<>>)
                  => /\ album_id \in EmptyIn(fCache'.album_tracks)
                     /\ fCache'.dirty]_vars
    /\ [][(fRun = 1 /\ fRun' = 2) =>
              EmptyIn(fCache.album_tracks) \subseteq EmptyIn(fCache'.album_tracks)]_vars
    /\ [](fCache.exists =>
              \A album_id \in EmptyIn(fCache.album_tracks) :
                  /\ TimesListed(fCalls, album_id)
                         <= (IF album_id \in EmptyIn(fFile) THEN 0 ELSE 1)
                  /\ \A i \in 1..Len(fTracks) : fTracks[i].album_id # album_id)

\* The second run has finished on the file the first run saved: album E,
\* listed empty in the first run, was looked up for both divisions and not
\* listed.
C30_Witness ==
    /\ fRun = 2
    /\ fPc = "done"
    /\ fCall = MaxCalls
    /\ fInput.cache.exists
    /\ <<"E">> \notin DOMAIN fInput.cache.album_tracks
    /\ <<"E">> \in EmptyIn(fFile)
    /\ \E i \in 1..Len(fFiltered) : fFiltered[i].album.id = <<"E">>
    /\ DOMAIN fMemo = {FinderDivision, Txt_d}
    /\ fCalls.listings = 0

---------------------------------------------------------------------------
(* Claims about generate_streaming_links (SpecRun).                        *)

\* The years of the dataset that pass min_year, years, start_year and end_year.
ResolvedYears ==
    {year \in rInput.dataset :
         /\ year >= rInput.min_year
         /\ Len(rInput.years.value) > 0 =>
                year \in {rInput.years.value[i] : i \in 1..Len(rInput.years.value)}
         /\ rInput.start_year.given => year >= rInput.start_year.value
         /\ rInput.end_year.given => year <= rInput.end_year.value}

\* C11: a run whose year filters resolve to more than one target year does no
\* matching at any point, writes no per-year file, does not rewrite the
\* aggregate, and returns 0.
C11_SeveralYearsNoMatching ==
    (rPc # "idle" /\ Cardinality(ResolvedYears) > 1) =>
        /\ ~rMatched
        /\ rWritten = {}
        /\ ~rCombined
        /\ rPc = "returned" => rReturn = 0
        /\ rPc \in {"start", "selected", "returned"}

\* A run with an aggregate and clients given whose filters leave two years,
\* and which has returned.
C11_Witness ==
    /\ rPc = "returned"
    /\ Cardinality(ResolvedYears) = 2
    /\ rInput.aggregate
    /\ rInput.clients # {}
    /\ rInput.years.given
    /\ rReturn = 0

\* C23: when the run returns, the cache file has been written if and only if
\* the run stored an album's tracks in the cache; it is not written before.
C23_SavedIfChanged ==
    /\ rPc \notin {"idle", "returned"} => rCacheFile = "untouched"
    /\ rPc = "returned" => (rCacheFile = "written" <=> rStored)
    /\ rPc = "returned" => ~rDirty

C23_Witness ==
    /\ rPc = "returned"
    /\ rStored
    /\ rCacheFile = "written"
    /\ rInput.aggregate

---------------------------------------------------------------------------
(* Claims about normalize_title (SpecNormalize).                           *)

\* C12: normalize_title is idempotent for both settings of
\* remove_parentheticals: normalising the result of a call returns it unchanged.
C12_NormalizeIdempotent ==
    Len(tOut) = 2 => tOut[2] = tOut[1]

\* A title with an opening parenthesis that is never closed and an upper-case
\* letter, normalised twice to a non-empty slug.
C12_Witness ==
    /\ Len(tOut) = 2
    /\ tOut[1] # <<>>
    /\ tOut[1] # tX
    /\ \E i \in 1..Len(tX) : tX[i] = "("
    /\ \A i \in 1..Len(tX) : tX[i] # ")"
    /\ \E i \in 1..Len(tX) : tX[i] = "A"

---------------------------------------------------------------------------
(* Claims about similarity_score (SpecSimilarity).                         *)

\* C13: similarity_score is symmetric, score(a, b) = score(b, a); it is 1 for
\* equal non-empty slugs and 0 when either slug is empty.
C13_SimilaritySymmetric ==
    Len(tOut) = 2 =>
        /\ FracEq(tOut[1], tOut[2])
        /\ (tX = tY /\ tX # <<>>) => FracEq(tOut[1], Frac(1, 1))
        /\ (tX = <<>> \/ tY = <<>>) => FracEq(tOut[1], Frac(0, 1))

---------------------------------------------------------------------------
(* Claims about score_album_relevance (SpecScore).                         *)

\* The album's name carries a token of the target division.
CarriesDivision(album) ==
    \E token \in get_division_tokens(sDivision) :
        Contains(LowerText(album.name), token)

\* C14: an album of the target year that carries no token of the target
\* division never scores higher than an album of the target year that
\* carries one.
C14_DivisionDominates ==
    (/\ sScores # <<>>
     /\ IsOfYear(sAlbums[1]) /\ ~CarriesDivision(sAlbums[1])
     /\ IsOfYear(sAlbums[2]) /\ CarriesDivision(sAlbums[2]))
        => sScores[1] <= sScores[2]

\* The weights the album's fields earn, added up.
WeightsOf(album) ==
    (IF album.release_date # NoneVal
        /\ SubSeq(album.release_date, 1, 4) = Str(BuildYear) THEN 200 ELSE 0)
    + (IF Contains(album.name, Str(BuildYear)) THEN 100 ELSE 0)
    + (IF CarriesDivision(album) THEN 150 ELSE 0)
    + (IF Contains(album.name, Txt_NMJanitsjar) THEN 20 ELSE 0)
    + (IF Contains(album.name, <<"L", "i", "v", "e">>) THEN 5 ELSE 0)
    + (IF album.album_type = <<"a", "l", "b", "u", "m">> THEN 2 ELSE 0)
    - (IF album.album_type = <<"s", "i", "n", "g", "l", "e">> THEN 10 ELSE 0)

\* The two albums are 'NM Janitsjar 2023 Elitedivisjon (Live)' and
\* 'NM Janitsjar 2022 Elitedivisjon', alike in release date and album type.
NamedPair ==
    /\ sDivision = Txt_Elite
    /\ sAlbums[1].name = Txt_NMJanitsjar \o <<" ">> \o Str(BuildYear) \o <<" ">>
                             \o Txt_Elitedivisjon \o Txt_Live
    /\ sAlbums[2].name = Txt_NMJanitsjar \o <<" ">> \o Str(OtherYear) \o <<" ">>
                             \o Txt_Elitedivisjon
    /\ sAlbums[1].release_date = sAlbums[2].release_date
    /\ sAlbums[1].album_type = sAlbums[2].album_type

\* C21: score_album_relevance is the sum of the weights 200 (release year),
\* 100 (year in the name), 150 (division token), 20 (contest token), 5 (live),
\* 2 (album) and -10 (single); so 'NM Janitsjar 2023 Elitedivisjon (Live)'
\* scores strictly higher than 'NM Janitsjar 2022 Elitedivisjon' for 2023
\* and Elite.
C21_SumOfWeights ==
    sScores # <<>> =>
        /\ \A i \in 1..2 : sScores[i] = WeightsOf(sAlbums[i])
        /\ NamedPair => sScores[1] > sScores[2]

C21_Witness ==
    /\ sScores # <<>>
    /\ NamedPair
    /\ sAlbums[1].release_date = NoneVal
    /\ sScores = <<275, 170>>

\* The lowest score an album of the target year can have: the year in its
\* name only (100) on a single (-10).
GateFloor == 100 - 10

\* C28: an album that passes the collector's target-year filter scores at
\* least 90, so the skip of albums that score under 10 never drops it.
C28_GatePassersScoreHigh ==
    sScores # <<>> =>
        \A i \in 1..2 :
            OfTargetYear(sAlbums[i], BuildYear) =>
                sScores[i] >= GateFloor /\ ~(sScores[i] < LowScore)

C28_Witness ==
    /\ sScores # <<>>
    /\ OfTargetYear(sAlbums[1], BuildYear)
    /\ sAlbums[1].release_date = NoneVal
    /\ sScores[1] = GateFloor

---------------------------------------------------------------------------
(* Claims about the override document (SpecLoad).                          *)

\* C18: loading the override document never fails the run: from_file
\* returns whatever the document holds, and an entry with a missing or an
\* unusable key component is skipped.
C18_LoadingNeverFails == lPc # "raised"

\* The entry is restricted to the band_type.
RestrictedTo(entry, band_type) ==
    LowerText(strip(Or(Get(entry, "band_type"), <<>>))) = band_type

\* The document's entries that are restricted to the run's band_type.
OwnEntries ==
    {i \in 1..Len(lDoc.entries) : RestrictedTo(lDoc.entries[i], lBandType)}

\* C19: an entry restricted to one band_type is neither returned by lookup
\* nor listed by remaining_entries in a run of the other band_type, and an
\* entry restricted to the run's band_type is applied to its performance
\* also when the document holds an entry of the same key for the other
\* band_type.
C19_BandTypeScoped ==
    /\ \A i \in 1..Len(lFound) :
           lFound[i].found.hit =>
               LowerText(strip(Or(Get(lFound[i].found.fields, "band_type"),
                                  lBandType))) = lBandType
    /\ \A i \in 1..Len(lRemaining) :
           lRemaining[i].meta.band_type \in {NoneVal, lBandType}
    /\ lPc = "done" =>
           \A i \in OwnEntries :
               \E j \in 1..Len(lFound) :
                   /\ lFound[j].performance.piece = lDoc.entries[i].piece
                   /\ lFound[j].found.hit
                   /\ lFound[j].found.fields.spotify = lDoc.entries[i].spotify

---------------------------------------------------------------------------
(* Claims about a shared cache file (SpecShare).                           *)

\* The file is a complete cache document, or there is none.
CompleteFile == xFile.kind \in {"missing", "document"}

\* Both runs have finished and the file holds every album entry a run
\* stored, with the last writer's entry for an album both stored.
MergedFile ==
    \A r \in SharingRuns : \A album_id \in xStored[r] :
        /\ album_id \in DOMAIN xFile.albums
        /\ (\A q \in SharingRuns : album_id \in xStored[q]) =>
               xFile.albums[album_id] = xWriters[Len(xWriters)]

\* C24: with two runs on one cache file the file is at every moment a
\* complete cache document, and once both runs have finished it holds the
\* merge of their album entries, the last writer's entry winning.
C24_SharedFileTolerated ==
    /\ CompleteFile
    /\ (\A r \in SharingRuns : xPc[r] = "done") => MergedFile

====
